---- MODULE Spec2Model ----
(***************************************************************************)
(* Model of the singing-voice translation pipeline:                        *)
(*   - merge_spanish_timeline.py      (Timeline Assembler)        SpecMerge *)
(*   - generate_all_spanish_segments.py / generate_spanish_segment.py      *)
(*                                    (Chunker, synthesis loop)   SpecChunk *)
(*   - generate_from_analysis.py      (Duration Reconciler)       SpecRecon *)
(*   - generate_all_spanish_segments.py: main SpecSynth                    *)
(*   - trim_segment.py                (trimming)  SpecTrim                 *)
(*   - analyze_specific_segment.py    (dual time frames)  SpecAnalyze      *)
(*   - analyze_vocals_precise.py      (silence gaps)  SpecGap              *)
(*   - analyze_vocals_precise.py      (Timing Enricher)  SpecEnrich        *)
(*   - analyze_vocals_precise.py      (Transcript Aligner)  SpecAlign      *)
(*   - all stage scripts              (runs on the data directory)  SpecRuns*)
(*   - generate_all_spanish_segments.py (input files)  SpecPair            *)
(*   - generate_from_analysis.py      (merge with timing)  SpecGapMerge    *)
(*   - mix_spanish_with_instrumental.py (mix)  SpecMix                     *)
(* Times are integers: milliseconds for positions in pydub AudioSegments   *)
(* (pydub's own resolution), frames for torch tensors.                     *)
(***************************************************************************)
EXTENDS Integers, Sequences, FiniteSets, TLC

VARIABLES
    \* ---- merge_spanish_timeline.py ----
    folders,        \* segment_analysis_* folders in name order (input)
    vocal_files,    \* generated_vocals/<lang>_<part>_merged.wav: length in ms, or NoFile
    segment_info,   \* list built by the discovery loop, then sorted
    base_track,     \* the master track
    overlaid,       \* one record per executed overlay (what the loop printed/did)
    m_pc,           \* position in merge_vocals_to_timeline
    \* ---- generate_all_spanish_segments.py / generate_spanish_segment.py ----
    word_timings,   \* analysis['transcription']['word_timings_dual_frame'] (input)
    segment_audio,  \* len(audio) of the segment wav, ms (input)
    target_lines,   \* the target-language lines handed to the chunker (input)
    line_word_ranges, \* the chunker's word index ranges
    chunks,         \* result of create_line_chunks_from_json
    warnings,       \* warnings and errors the chunker run printed
    fixed_chunks,   \* result of create_line_chunks (explicit ranges)
    c_pc,           \* position of the chunker run
    \* ---- generate_all_spanish_segments.py: main / process_segment ----
    segment_queue,  \* segment folders main() has still to process
    cur_part,       \* part_name of the segment being processed
    chunk_outputs,  \* process_segment's chunk_outputs
    synth_log,      \* per synthesized chunk: what the engine did and what was reported
    merged_files,   \* generated_vocals/<lang>_<part>_merged.wav: the lines it holds
    results,        \* main()'s results: parts with a merged output
    s_pc,           \* position in main / process_segment
    \* ---- generate_from_analysis.py ----
    segments_info,  \* analysis["transcription"]["segments"] (input)
    generated_log,  \* per loop iteration: what the engine returned
    generated_segments, \* the list the generation loop builds
    r_pc,           \* position in the script
    \* ---- trim_segment.py ----
    report_file,  \* analysis_report.json as persisted (input)
    segment_file_exists,  \* whether the segment wav of the report exists (input)
    analysis,  \* the top-level dict json.load returned (nested dicts by reference)
    heap,  \* the nested dict objects in memory, by reference
    target_word_data,  \* the word the search loop stopped at, or None
    trimmed_audio,  \* len(trimmed_audio), ms
    updated_analysis,  \* the top-level dict analysis.copy() returned
    trimmed_report_file,  \* analysis_report_trimmed.json as persisted, or None
    t_pc, \* position in trim_segment_to_word
    \* ---- analyze_specific_segment.py ----
    start_time,  \* absolute start of the extracted region, ms (input)
    transcription_words,  \* transcription.words as the engine returned them (input)
    word_timings_dual,  \* the dual time frame word list
    a_pc, \* position in extract_and_analyze_specific_segment
    \* ---- analyze_vocals_precise.py: analyze_audio_detailed ----
    sr,  \* sample rate of the analysed region, Hz (input)
    rms,  \* energy of every frame of the region (input)
    gaps,  \* the gaps the silence detection reported (frame indices)
    g_pc, \* position in the silence detection
    \* ---- analyze_vocals_precise.py: enrich_word_timings_with_features ----
    timed_words,  \* word_timings as transcribed: start and end of every word, ms (input)
    pitch_contour,  \* pitch samples with their time, ms (input)
    rms_frames,  \* rms_times and rms_db, one entry per energy frame (input)
    enriched,  \* the words the loop has enriched so far
    e_pc, \* position in enrich_word_timings_with_features
    \* ---- analyze_vocals_precise.py: transcribe_with_word_timestamps ----
    transcription,  \* the verbose_json response of the transcription engine (input)
    onset_times,  \* onset times handed to the aligner, ms (input)
    full_text,  \* full_text of the aligner
    aligned_words,  \* word_timings of the aligner
    aligned_segments,  \* segments of the aligner
    transcript,  \* the dict the aligner returns
    al_pc, \* position in transcribe_with_word_timestamps
    \* ---- the data directory over a sequence of stage runs ----
    clock,  \* the wall clock in seconds (datetime.now())
    run_folders,  \* timestamps of the data/analysis/run_<timestamp> folders
    segment_folders,  \* timestamps of the data/analysis/segment_analysis_<timestamp> folders
    disk,  \* the files written so far, each with the run that wrote it last
    overwritten,  \* files of one run that a later run wrote again
    stage_log, \* stage and outcome of every run so far
    \* ---- generate_all_spanish_segments.py: process_segment, choice of the input files ----
    folder_content,  \* the segment_*.wav and analysis_*.json files of the segment folder (input)
    audio_file,  \* segment_audio of process_segment
    analysis_json,  \* analysis_json of process_segment
    p_pc, \* position in process_segment
    \* ---- generate_all_spanish_segments.py: per-word and per-chunk pitch and energy ----
    word_features,  \* avg_pitch_hz and avg_energy_db of the words of the analysis, where present (input)
    chunk_features, \* avg_pitch_hz and avg_energy_db of the chunks
    \* ---- generate_from_analysis.py: merge of the segments with timing ----
    to_merge,  \* generated_segments at the start of the merge (input)
    final_audio,  \* len(final_audio), ms
    current_position,  \* current_position, in ticks of 1/TicksPerMs ms
    placed,  \* for every appended segment its index, where it begins and the gaps so far
    gm_pc, \* position in the merge
    \* ---- mix_spanish_with_instrumental.py: mix_vocals_with_instrumental ----
    vocals,  \* the vocals track: its length and the length of its own content, ms
    instrumental,  \* the instrumental track, likewise
    mixed,  \* the mix: its length and how much of either track it holds, ms
    mx_pc  \* position in mix_vocals_with_instrumental

mergeVars == <<folders, vocal_files, segment_info, base_track, overlaid, m_pc>>

chunkVars == <<word_timings, segment_audio, target_lines, line_word_ranges, chunks,
               warnings, fixed_chunks, c_pc>>

synthVars == <<segment_queue, cur_part, chunk_outputs, synth_log, merged_files,
               results, s_pc>>

reconVars == <<segments_info, generated_log, generated_segments, r_pc>>

trimVars == <<report_file, segment_file_exists, analysis, heap, target_word_data,
              trimmed_audio, updated_analysis, trimmed_report_file, t_pc>>

analyzeVars == <<start_time, transcription_words, word_timings_dual, a_pc>>

gapVars == <<sr, rms, gaps, g_pc>>

enrichVars == <<timed_words, pitch_contour, rms_frames, enriched, e_pc>>

alignVars == <<transcription, onset_times, full_text, aligned_words, aligned_segments,
              transcript, al_pc>>

runsVars == <<clock, run_folders, segment_folders, disk, overwritten, stage_log>>

pairVars == <<folder_content, audio_file, analysis_json, p_pc>>

featVars == <<word_features, chunk_features>>

gapMergeVars == <<to_merge, final_audio, current_position, placed, gm_pc>>

mixVars == <<vocals, instrumental, mixed, mx_pc>>

vars == <<folders, vocal_files, segment_info, base_track, overlaid, m_pc,
          word_timings, segment_audio, target_lines, line_word_ranges, chunks,
          warnings, fixed_chunks, c_pc,
          segment_queue, cur_part, chunk_outputs, synth_log, merged_files,
          results, s_pc,
          segments_info, generated_log, generated_segments, r_pc,
          report_file, segment_file_exists, analysis, heap, target_word_data,
          trimmed_audio, updated_analysis, trimmed_report_file, t_pc,
          start_time, transcription_words, word_timings_dual, a_pc,
          sr, rms, gaps, g_pc,
          timed_words, pitch_contour, rms_frames, enriched, e_pc,
          transcription, onset_times, full_text, aligned_words, aligned_segments,
          transcript, al_pc,
          clock, run_folders, segment_folders, disk, overwritten, stage_log,
          folder_content, audio_file, analysis_json, p_pc,
          word_features, chunk_features,
          to_merge, final_audio, current_position, placed, gm_pc,
          vocals, instrumental, mixed, mx_pc>>

----------------------------------------------------------------------------
(* Generic helpers *)

\* a JSON number and JSON null
Num(v) == << v >>
Null == << >>

Max(a, b) == IF a >= b THEN a ELSE b
Min(a, b) == IF a <= b THEN a ELSE b
Abs(x) == IF x >= 0 THEN x ELSE -x

SetMax(S) == CHOOSE x \in S : \A y \in S : y <= x

\* ceil(a / b) for a >= 0, b > 0
CeilDiv(a, b) == (a + b - 1) \div b

----------------------------------------------------------------------------
(* Idle values of the timeline variables while another stage runs *)

NoFile == -1

\* AudioSegment.silent(duration=ms)
Silent(ms) == [ len |-> ms, mix |-> {} ]

MergeIdle ==
    /\ folders = << >>
    /\ vocal_files = [ p \in {"part1", "part2"} |-> NoFile ]
    /\ segment_info = << >>
    /\ base_track = Silent(0)
    /\ overlaid = << >>
    /\ m_pc = "idle"


\* Python's None where a path is expected
None == [ none |-> TRUE ]

NoPart == "none"

SynthIdle ==
    /\ segment_queue = << >>
    /\ cur_part = NoPart
    /\ chunk_outputs = << >>
    /\ synth_log = << >>
    /\ merged_files = << >>
    /\ results = {}
    /\ s_pc = "idle"

ReconIdle ==
    /\ segments_info = << >>
    /\ generated_log = << >>
    /\ generated_segments = << >>
    /\ r_pc = "idle"

TrimIdle ==
    /\ report_file = None
    /\ segment_file_exists = FALSE
    /\ analysis = None
    /\ heap = << >>
    /\ target_word_data = None
    /\ trimmed_audio = 0
    /\ updated_analysis = None
    /\ trimmed_report_file = None
    /\ t_pc = "idle"

AnalyzeIdle ==
    /\ start_time = 0
    /\ transcription_words = << >>
    /\ word_timings_dual = << >>
    /\ a_pc = "idle"

GapIdle ==
    /\ sr = 0
    /\ rms = << >>
    /\ gaps = << >>
    /\ g_pc = "idle"

EnrichIdle ==
    /\ timed_words = << >>
    /\ pitch_contour = << >>
    /\ rms_frames = << >>
    /\ enriched = << >>
    /\ e_pc = "idle"

AlignIdle ==
    /\ transcription = None
    /\ onset_times = << >>
    /\ full_text = << >>
    /\ aligned_words = << >>
    /\ aligned_segments = << >>
    /\ transcript = None
    /\ al_pc = "idle"

RunsIdle ==
    /\ clock = 0
    /\ run_folders = {}
    /\ segment_folders = {}
    /\ disk = {}
    /\ overwritten = {}
    /\ stage_log = << >>

PairIdle ==
    /\ folder_content = {}
    /\ audio_file = "none"
    /\ analysis_json = "none"
    /\ p_pc = "idle"

FeatIdle ==
    /\ word_features = << >>
    /\ chunk_features = << >>

GapMergeIdle ==
    /\ to_merge = << >>
    /\ final_audio = 0
    /\ current_position = 0
    /\ placed = << >>
    /\ gm_pc = "idle"

MixIdle ==
    /\ vocals = None
    /\ instrumental = None
    /\ mixed = None
    /\ mx_pc = "idle"

----------------------------------------------------------------------------
(* generate_all_spanish_segments.py: create_line_chunks_from_json          *)
(* generate_spanish_segment.py:      create_line_chunks                    *)

\* Bounds of the model
MaxWords == 18

\* number of lines a segment is divided into
NumLines == 4

\* padding_ms of create_line_chunks_from_json and of create_line_chunks
PaddingJson == 50
PaddingFixed == 100

\* word timing inputs: relative start of the first word, word length and
\* gap between words (ms)
FirstStartChoices == {0, 30, 400}
WordLen == 300
GapChoices == {0, 100}

\* len(audio) relative to the end of the last word (ms): audio shorter than
\* the transcript, barely longer, much longer
AudioSlackChoices == {-1500, -200, 20, 600}

TargetLineLists ==
    { <<"l1", "l2", "l3">>, <<"l1", "l2", "l3", "l4">>,
      <<"l1", "l2", "l3", "l4", "l5">> }

WordList(n, first, gap) ==
    [ i \in 1..n |->
        [ start |-> first + (i - 1) * (WordLen + gap),
          end   |-> first + (i - 1) * (WordLen + gap) + WordLen ] ]

\* lines 131-140: the word index ranges (0-based, inclusive) of the 4 lines
RECURSIVE RangesFrom(_, _, _)
RangesFrom(line_num, current_idx, total_words) ==
    IF line_num >= NumLines THEN << >>
    ELSE LET words_per_line == total_words \div NumLines
             remainder == total_words % NumLines
             line_size == words_per_line + (IF line_num < remainder THEN 1 ELSE 0)
             end_idx == Min(current_idx + line_size - 1, total_words - 1)
         IN  << <<current_idx, end_idx>> >>
                \o RangesFrom(line_num + 1, end_idx + 1, total_words)

\* (the extra word handed to one line too many)
RECURSIVE RangesFromOffByOne(_, _, _)
RangesFromOffByOne(line_num, current_idx, total_words) ==
    IF line_num >= NumLines THEN << >>
    ELSE LET words_per_line == total_words \div NumLines
             remainder == total_words % NumLines
             line_size == words_per_line + (IF line_num <= remainder THEN 1 ELSE 0)
             end_idx == Min(current_idx + line_size - 1, total_words - 1)
         IN  << <<current_idx, end_idx>> >>
                \o RangesFromOffByOne(line_num + 1, end_idx + 1, total_words)

RangesOffByOne(total_words) == RangesFromOffByOne(0, 0, total_words)

LineWordRanges(total_words) == RangesFrom(0, 0, total_words)

\* lines 143-148: pad with "" or truncate to 4 lines
PadLines(lines) ==
    [ j \in 1..NumLines |-> IF j <= Len(lines) THEN lines[j] ELSE "" ]

\* the clip bounds (lines 166-167 / 63-64)
ChunkStartUnpadded(start_time_ms, padding_ms) == Max(0, start_time_ms)

ChunkStart(start_time_ms, padding_ms) == Max(0, start_time_ms - padding_ms)

ChunkEnd(end_time_ms, padding_ms, length) == Min(length, end_time_ms + padding_ms)

\* lines 157-216: the chunk record of one line (word indices 0-based)
JsonChunk(words, length, lines, line_idx, range) ==
    LET start_time_relative == words[range[1] + 1].start
        end_time_relative   == words[range[2] + 1].end
        chunk_start == ChunkStart(start_time_relative, PaddingJson)
        chunk_end   == ChunkEnd(end_time_relative, PaddingJson, length)
    IN  [ line_number |-> line_idx + 1,
          chunk_path  |-> [ from |-> chunk_start, to |-> chunk_end ],
          target_text |-> lines[line_idx + 1],
          duration    |-> chunk_end - chunk_start,
          time_range  |-> << start_time_relative, end_time_relative >>,
          word_count  |-> range[2] - range[1] + 1 ]

\* lines 153-216: the loop over the ranges, with its break
RECURSIVE JsonChunksFrom(_, _, _, _, _)
JsonChunksFrom(words, length, lines, ranges, line_idx) ==
    IF line_idx >= Len(ranges) THEN << >>
    ELSE IF ranges[line_idx + 1][1] >= Len(words) THEN << >>
    ELSE << JsonChunk(words, length, lines, line_idx, ranges[line_idx + 1]) >>
            \o JsonChunksFrom(words, length, lines, ranges, line_idx + 1)

\* line 120: the error printed for an empty word list
NoWordTimings == "No word timings found in analysis"

\* lines 143-144: the warning printed when there are not 4 target lines
NoLinesWarning(lines) == {}

LinesWarning(lines) ==
    IF Len(lines) # NumLines THEN {"Expected 4 lines"} ELSE {}

\* process_segment lines 361-362: the warning printed when there are not 4 chunks
NoChunkCountWarning(result) == {}

ChunkCountWarning(result) ==
    IF Len(result) # NumLines THEN {"Expected 4 chunks"} ELSE {}

\* create_line_chunks_from_json
CreateLineChunksFromJson(words, length, lines) ==
    IF Len(words) = 0
    THEN [ ranges |-> << >>, chunks |-> << >>, warnings |-> { NoWordTimings } ]
    ELSE LET ranges == LineWordRanges(Len(words))
         IN  [ ranges |-> ranges,
               chunks |-> JsonChunksFrom(words, length, PadLines(lines), ranges, 0),
               warnings |-> LinesWarning(lines) ]

\* generate_spanish_segment.py lines 46-51
FixedWordRanges == << <<0, 4>>, <<5, 9>>, <<10, 13>>, <<14, 17>> >>

\* generate_spanish_segment.py lines 33-38
SpanishLines == << "s1", "s2", "s3", "s4" >>

\* generate_spanish_segment.py lines 56-84
FixedChunk(words, length, line_idx, range) ==
    LET start_time_ms == words[range[1] + 1].start
        end_time_ms   == words[range[2] + 1].end
        chunk_start == ChunkStart(start_time_ms, PaddingFixed)
        chunk_end   == ChunkEnd(end_time_ms, PaddingFixed, length)
    IN  [ line_number  |-> line_idx + 1,
          chunk_path   |-> [ from |-> chunk_start, to |-> chunk_end ],
          spanish_text |-> SpanishLines[line_idx + 1],
          duration     |-> chunk_end - chunk_start,
          time_range   |-> << start_time_ms, end_time_ms >> ]

\* create_line_chunks: indexing past the word list raises IndexError
CreateLineChunks(words, length) ==
    IF \E j \in 1..Len(FixedWordRanges) : FixedWordRanges[j][2] >= Len(words)
    THEN [ error |-> "IndexError", chunks |-> << >> ]
    ELSE [ error |-> "none",
           chunks |-> [ j \in 1..Len(FixedWordRanges) |->
                          FixedChunk(words, length, j - 1, FixedWordRanges[j]) ] ]

\* per-word features of an analysis record: the keys are present or not, a
\* value is a number or null; energy is in dB below the loudest frame, so 0 is
\* the loudest value
FeaturePatterns == { "none", "all", "null", "loudest", "some loudest", "mixed" }

WordFeatures(pattern, k) ==
    CASE pattern = "none" -> [ index |-> k - 1 ]
      [] pattern = "all" ->
            [ index |-> k - 1, avg_pitch_hz |-> Num(220), avg_energy_db |-> Num(-12) ]
      [] pattern = "null" ->
            [ index |-> k - 1, avg_pitch_hz |-> Null, avg_energy_db |-> Null ]
      [] pattern = "loudest" ->
            [ index |-> k - 1, avg_pitch_hz |-> Num(247), avg_energy_db |-> Num(0) ]
      [] pattern = "some loudest" ->
            [ index |-> k - 1, avg_pitch_hz |-> Num(196 + k),
              avg_energy_db |-> IF k % 2 = 1 THEN Num(0) ELSE Num(-12) ]
      [] pattern = "mixed" ->
            IF k % 3 = 0 THEN [ index |-> k - 1 ]
            ELSE IF k % 3 = 1
                 THEN [ index |-> k - 1, avg_pitch_hz |-> Num(196),
                        avg_energy_db |-> Num(-30) ]
                 ELSE [ index |-> k - 1, avg_pitch_hz |-> Null, avg_energy_db |-> Null ]

\* lines 188-191: 'key' in word and word[key] (the value is truthy: neither
\* None nor 0)
Truthy(value) == value # Null /\ value # Num(0)

RECURSIVE ValuesOf(_, _, _, _)
ValuesOf(features, key, i, end_word_idx) ==
    IF i > end_word_idx THEN << >>
    ELSE (IF key \in DOMAIN features[i + 1] /\ Truthy(features[i + 1][key])
          THEN << features[i + 1][key][1] >> ELSE << >>)
         \o ValuesOf(features, key, i + 1, end_word_idx)

RECURSIVE SumSeq(_)
SumSeq(s) == IF s = << >> THEN 0 ELSE Head(s) + SumSeq(Tail(s))

\* lines 193-196: sum(values) / len(values), kept as <<sum, count>>, or None
MeanOrNone(values) ==
    IF values # << >> THEN Num(<< SumSeq(values), Len(values) >>) ELSE Null

\* lines 181-196: average pitch and energy of a line
LineFeatures(features, range) ==
    [ avg_pitch_hz |-> MeanOrNone(ValuesOf(features, "avg_pitch_hz", range[1], range[2])),
      avg_energy_db |-> MeanOrNone(ValuesOf(features, "avg_energy_db", range[1], range[2])) ]

NoResult == [ error |-> "not run", chunks |-> << >> ]

ChunkIdle ==
    /\ word_timings = << >>
    /\ segment_audio = 0
    /\ target_lines = << >>
    /\ line_word_ranges = << >>
    /\ chunks = << >>
    /\ warnings = {}
    /\ fixed_chunks = NoResult
    /\ c_pc = "idle"

InitChunk ==
    /\ MergeIdle
    /\ ReconIdle
    /\ SynthIdle
    /\ TrimIdle
    /\ AnalyzeIdle
    /\ GapIdle
    /\ EnrichIdle
    /\ AlignIdle
    /\ RunsIdle
    /\ PairIdle
    /\ GapMergeIdle
    /\ MixIdle
    /\ \E n \in 0..MaxWords : \E first \in FirstStartChoices :
       \E gap \in GapChoices : \E slack \in AudioSlackChoices :
          /\ word_timings = WordList(n, first, gap)
          /\ segment_audio = Max(0, first + n * (WordLen + gap) + slack)
    /\ target_lines \in TargetLineLists
    /\ \E pattern \in FeaturePatterns :
          word_features = [ k \in 1..Len(word_timings) |-> WordFeatures(pattern, k) ]
    /\ chunk_features = << >>
    /\ line_word_ranges = << >>
    /\ chunks = << >>
    /\ warnings = {}
    /\ fixed_chunks = NoResult
    /\ c_pc = "start"

\* process_segment lines 353-362: create_line_chunks_from_json on the loaded
\* analysis and the check of the chunk count
RunCreateLineChunksFromJson ==
    /\ c_pc = "start"
    /\ LET r == CreateLineChunksFromJson(word_timings, segment_audio, target_lines)
       IN  /\ line_word_ranges' = r.ranges
           /\ chunks' = r.chunks
           /\ warnings' = r.warnings \cup ChunkCountWarning(r.chunks)
           /\ chunk_features' =
                 [ j \in 1..Len(r.chunks) |-> LineFeatures(word_features, r.ranges[j]) ]
    /\ c_pc' = "json done"
    /\ UNCHANGED <<word_timings, segment_audio, target_lines, fixed_chunks>>
    /\ UNCHANGED mergeVars
    /\ UNCHANGED synthVars
    /\ UNCHANGED reconVars
    /\ UNCHANGED trimVars
    /\ UNCHANGED analyzeVars
    /\ UNCHANGED gapVars
    /\ UNCHANGED enrichVars
    /\ UNCHANGED alignVars
    /\ UNCHANGED runsVars
    /\ UNCHANGED pairVars
    /\ UNCHANGED gapMergeVars
    /\ UNCHANGED mixVars
    /\ UNCHANGED word_features

\* a run of create_line_chunks on the same analysis
RunCreateLineChunks ==
    /\ c_pc = "json done"
    /\ fixed_chunks' = CreateLineChunks(word_timings, segment_audio)
    /\ c_pc' = "done"
    /\ UNCHANGED <<word_timings, segment_audio, target_lines, line_word_ranges, chunks,
                   warnings>>
    /\ UNCHANGED mergeVars
    /\ UNCHANGED synthVars
    /\ UNCHANGED reconVars
    /\ UNCHANGED trimVars
    /\ UNCHANGED analyzeVars
    /\ UNCHANGED gapVars
    /\ UNCHANGED enrichVars
    /\ UNCHANGED alignVars
    /\ UNCHANGED runsVars
    /\ UNCHANGED pairVars
    /\ UNCHANGED featVars
    /\ UNCHANGED gapMergeVars
    /\ UNCHANGED mixVars

NextChunk == RunCreateLineChunksFromJson \/ RunCreateLineChunks

SpecChunk == InitChunk /\ [][NextChunk]_vars

----------------------------------------------------------------------------
(* generate_all_spanish_segments.py: main, process_segment,                *)
(* generate_target_chunk, merge_target_chunks                              *)

\* cosyvoice.sample_rate (frames per second of the generated audio)
SampleRate == 22050

\* the segment folders of a run, in name order
SegmentFolders == << "part1", "part2" >>

\* word counts of the analysed segments of a run
SynthWordCounts == {0, 3, 5}
SynthFirstStartChoices == {0, 400}
SynthAudioSlackChoices == {20, 600}

\* SPANISH_LYRICS[part]
LyricLines == << "l1", "l2", "l3", "l4" >>

\* what the synthesis engine does for one chunk: frames of audio returned,
\* an exception, or no output at all
GeneratedFrameChoices == {22050, 66150}
SynthOutcomes ==
    { [ kind |-> "ok", frames |-> f ] : f \in GeneratedFrameChoices }
    \cup { [ kind |-> "raise", frames |-> 0 ], [ kind |-> "empty", frames |-> 0 ] }

OutputPath(part_name, line_number) == [ part |-> part_name, line |-> line_number ]

\* generate_target_chunk line 274: ref_duration (ms)
RefDurationSpan(chunk_info) == chunk_info.time_range[2] - chunk_info.time_range[1]

RefDuration(chunk_info) == chunk_info.duration

\* generate_target_chunk lines 250-285: the returned path and the timing report
\* (time_diff > 0.5 s, with duration = frames / SampleRate)
ResultKeepsPath(outcome, output_path) ==
    IF outcome.kind = "raise" THEN None ELSE output_path

SynthResult(outcome, output_path) ==
    IF outcome.kind = "ok" THEN output_path ELSE None

GenerateTargetChunk(chunk_info, output_path, outcome) ==
    [ result |-> SynthResult(outcome, output_path),
      report |->
          IF outcome.kind = "ok"
          THEN [ outcome |-> "ok",
                 ref_duration |-> RefDuration(chunk_info),
                 good_sync |->
                    Abs(1000 * outcome.frames - SampleRate * RefDuration(chunk_info))
                       <= 500 * SampleRate ]
          ELSE [ outcome |-> outcome.kind ] ]

\* merge_target_chunks: the lines whose chunk path is not None, in order
RECURSIVE MergeTargetChunks(_)
MergeTargetChunks(outputs) ==
    IF outputs = << >> THEN << >>
    ELSE IF Head(outputs) = None
         THEN MergeTargetChunks(Tail(outputs))
         ELSE << Head(outputs).line >> \o MergeTargetChunks(Tail(outputs))

InitSynth ==
    /\ MergeIdle
    /\ ReconIdle
    /\ ChunkIdle
    /\ TrimIdle
    /\ AnalyzeIdle
    /\ GapIdle
    /\ EnrichIdle
    /\ AlignIdle
    /\ RunsIdle
    /\ PairIdle
    /\ FeatIdle
    /\ GapMergeIdle
    /\ MixIdle
    /\ segment_queue = SegmentFolders
    /\ cur_part = NoPart
    /\ chunk_outputs = << >>
    /\ synth_log = << >>
    /\ merged_files = << >>
    /\ results = {}
    /\ s_pc = "main"

\* main lines 438-461 and process_segment lines 317-362: the next folder is
\* mapped to its part, its analysis is loaded and chunked
StartSegment ==
    /\ s_pc = "main"
    /\ segment_queue # << >>
    /\ \E n \in SynthWordCounts : \E first \in SynthFirstStartChoices :
       \E slack \in SynthAudioSlackChoices :
          LET words == WordList(n, first, 0)
              length == first + n * WordLen + slack
              r == CreateLineChunksFromJson(words, length, LyricLines)
          IN  /\ word_timings' = words
              /\ segment_audio' = length
              /\ target_lines' = LyricLines
              /\ line_word_ranges' = r.ranges
              /\ chunks' = r.chunks
              /\ warnings' = r.warnings \cup ChunkCountWarning(r.chunks)
    /\ cur_part' = Head(segment_queue)
    /\ chunk_outputs' = << >>
    /\ synth_log' = << >>
    /\ s_pc' = "synth"
    /\ UNCHANGED <<fixed_chunks, c_pc, segment_queue, merged_files, results>>
    /\ UNCHANGED mergeVars
    /\ UNCHANGED reconVars
    /\ UNCHANGED trimVars
    /\ UNCHANGED analyzeVars
    /\ UNCHANGED gapVars
    /\ UNCHANGED enrichVars
    /\ UNCHANGED alignVars
    /\ UNCHANGED runsVars
    /\ UNCHANGED pairVars
    /\ UNCHANGED featVars
    /\ UNCHANGED gapMergeVars
    /\ UNCHANGED mixVars

\* process_segment lines 368-372: one iteration of the generation loop
SynthesizeChunk ==
    /\ s_pc = "synth"
    /\ Len(chunk_outputs) < Len(chunks)
    /\ \E outcome \in SynthOutcomes :
          LET chunk_info == chunks[Len(chunk_outputs) + 1]
              g == GenerateTargetChunk(chunk_info,
                      OutputPath(cur_part, chunk_info.line_number), outcome)
          IN  /\ chunk_outputs' = Append(chunk_outputs, g.result)
              /\ synth_log' = Append(synth_log, g.report)
    /\ UNCHANGED <<segment_queue, cur_part, merged_files, results, s_pc>>
    /\ UNCHANGED chunkVars
    /\ UNCHANGED mergeVars
    /\ UNCHANGED reconVars
    /\ UNCHANGED trimVars
    /\ UNCHANGED analyzeVars
    /\ UNCHANGED gapVars
    /\ UNCHANGED enrichVars
    /\ UNCHANGED alignVars
    /\ UNCHANGED runsVars
    /\ UNCHANGED pairVars
    /\ UNCHANGED featVars
    /\ UNCHANGED gapMergeVars
    /\ UNCHANGED mixVars

\* process_segment lines 374-376: merge of the generated chunks
MergeSegment ==
    /\ s_pc = "synth"
    /\ Len(chunk_outputs) = Len(chunks)
    /\ merged_files' =
          [ p \in DOMAIN merged_files \cup { cur_part } |->
              IF p = cur_part THEN MergeTargetChunks(chunk_outputs)
              ELSE merged_files[p] ]
    /\ s_pc' = "merged"
    /\ UNCHANGED <<segment_queue, cur_part, chunk_outputs, synth_log, results>>
    /\ UNCHANGED chunkVars
    /\ UNCHANGED mergeVars
    /\ UNCHANGED reconVars
    /\ UNCHANGED trimVars
    /\ UNCHANGED analyzeVars
    /\ UNCHANGED gapVars
    /\ UNCHANGED enrichVars
    /\ UNCHANGED alignVars
    /\ UNCHANGED runsVars
    /\ UNCHANGED pairVars
    /\ UNCHANGED featVars
    /\ UNCHANGED gapMergeVars
    /\ UNCHANGED mixVars

\* process_segment line 380 and main lines 461-463: the part's result is kept
\* and the loop goes to the next folder
ReturnSegment ==
    /\ s_pc = "merged"
    /\ results' = results \cup { cur_part }
    /\ segment_queue' = Tail(segment_queue)
    /\ cur_part' = NoPart
    /\ chunk_outputs' = << >>
    /\ synth_log' = << >>
    /\ word_timings' = << >>
    /\ segment_audio' = 0
    /\ target_lines' = << >>
    /\ line_word_ranges' = << >>
    /\ chunks' = << >>
    /\ warnings' = {}
    /\ s_pc' = "main"
    /\ UNCHANGED <<fixed_chunks, c_pc, merged_files>>
    /\ UNCHANGED mergeVars
    /\ UNCHANGED reconVars
    /\ UNCHANGED trimVars
    /\ UNCHANGED analyzeVars
    /\ UNCHANGED gapVars
    /\ UNCHANGED enrichVars
    /\ UNCHANGED alignVars
    /\ UNCHANGED runsVars
    /\ UNCHANGED pairVars
    /\ UNCHANGED featVars
    /\ UNCHANGED gapMergeVars
    /\ UNCHANGED mixVars

\* main lines 465-474: every folder has been visited
FinishRun ==
    /\ s_pc = "main"
    /\ segment_queue = << >>
    /\ s_pc' = "finished"
    /\ UNCHANGED <<segment_queue, cur_part, chunk_outputs, synth_log, merged_files, results>>
    /\ UNCHANGED chunkVars
    /\ UNCHANGED mergeVars
    /\ UNCHANGED reconVars
    /\ UNCHANGED trimVars
    /\ UNCHANGED analyzeVars
    /\ UNCHANGED gapVars
    /\ UNCHANGED enrichVars
    /\ UNCHANGED alignVars
    /\ UNCHANGED runsVars
    /\ UNCHANGED pairVars
    /\ UNCHANGED featVars
    /\ UNCHANGED gapMergeVars
    /\ UNCHANGED mixVars

NextSynth ==
    StartSegment \/ SynthesizeChunk \/ MergeSegment \/ ReturnSegment \/ FinishRun

SpecSynth == InitSynth /\ [][NextSynth]_vars

----------------------------------------------------------------------------
(* generate_from_analysis.py: generation loop with duration reconciliation *)

\* Bounds of the model
MaxSegments == 3

\* transcription segments (start, end) in ms: 2.2 s, 10 s, an empty one, 20 s
SegmentChoices ==
    { <<0, 2200>>, <<3000, 13000>>, <<13000, 13000>>, <<13000, 33000>> }

\* frames of audio the engine returns for one line (at SampleRate):
\* under 1 ms, 1.6 s, 2.22 s, 8 s, 10.05 s, 11.5 s, 13 s
ReconFrameChoices == {19, 35280, 48951, 176400, 221603, 253575, 286650}

ReconOutcomes ==
    { [ kind |-> "ok", frames |-> f ] : f \in ReconFrameChoices }
    \cup { [ kind |-> "raise", frames |-> 0 ], [ kind |-> "empty", frames |-> 0 ] }

\* line 141: abs(duration_ratio - 1.0) > 0.15, with
\* duration_ratio = (frames / SampleRate) / (seg_duration_ms / 1000), i.e.
\* |1000*frames - SampleRate*ms| > (15/100) * SampleRate*ms
NeedsStretchLoose(frames, seg_duration) ==
    Abs(1000 * frames - SampleRate * seg_duration)
        > (SampleRate * seg_duration) \div 2

NeedsStretch(frames, seg_duration) ==
    Abs(1000 * frames - SampleRate * seg_duration)
        > (3 * SampleRate * seg_duration) \div 20

\* line 154: int(audio_seg.frame_rate * speed_factor)
NewFrameRate(frames, seg_duration) == (1000 * frames) \div seg_duration

\* line 155: set_frame_rate(audio_seg.frame_rate) resamples the same audio,
\* now lasting frames / new_rate seconds, back to SampleRate
StretchedFrames(frames, new_rate) ==
    (frames \div new_rate) * SampleRate
        + ((frames % new_rate) * SampleRate) \div new_rate

\* len(AudioSegment): round(1000 * frame_count / frame_rate)
LenMs(frames) == (2000 * frames + SampleRate) \div (2 * SampleRate)

\* lines 132-186: the record appended for a generated segment; durations in
\* seconds are kept as <<numerator, denominator>>
Reconcile(i, seg, frames) ==
    LET seg_duration == seg[2] - seg[1]
    IN  IF NeedsStretch(frames, seg_duration)
        THEN LET out == StretchedFrames(frames, NewFrameRate(frames, seg_duration))
             IN  [ index |-> i,
                   original_start |-> seg[1],
                   original_end |-> seg[2],
                   original_duration |-> seg_duration,
                   file |-> [ name |-> "adjusted", frames |-> out ],
                   adjusted |-> TRUE,
                   final_duration |-> << LenMs(out), 1000 >> ]
        ELSE [ index |-> i,
               original_start |-> seg[1],
               original_end |-> seg[2],
               original_duration |-> seg_duration,
               file |-> [ name |-> "segment", frames |-> frames ],
               adjusted |-> FALSE,
               final_duration |-> << frames, SampleRate >> ]

\* an iteration ends in the except branch: the engine raised, seg_duration is
\* 0 (division by zero) or the new frame rate is 0 (resampling fails)
IterationRaises(seg, outcome) ==
    \/ outcome.kind = "raise"
    \/ /\ outcome.kind = "ok"
       /\ \/ seg[2] - seg[1] = 0
          \/ /\ NeedsStretch(outcome.frames, seg[2] - seg[1])
             /\ NewFrameRate(outcome.frames, seg[2] - seg[1]) = 0

\* segments in time order, none starting before the previous one ends
SegmentLists ==
    { s \in UNION { [1..n -> SegmentChoices] : n \in 0..MaxSegments } :
        \A k \in 1..(Len(s) - 1) : s[k][2] <= s[k + 1][1] }

InitRecon ==
    /\ MergeIdle
    /\ ChunkIdle
    /\ SynthIdle
    /\ TrimIdle
    /\ AnalyzeIdle
    /\ GapIdle
    /\ EnrichIdle
    /\ AlignIdle
    /\ RunsIdle
    /\ PairIdle
    /\ FeatIdle
    /\ GapMergeIdle
    /\ MixIdle
    /\ segments_info \in SegmentLists
    /\ generated_log = << >>
    /\ generated_segments = << >>
    /\ r_pc = "generate"

\* lines 99-190: one iteration of the generation loop
GenerateSegment ==
    /\ r_pc = "generate"
    /\ Len(generated_log) < Len(segments_info)
    /\ \E outcome \in ReconOutcomes :
          LET i == Len(generated_log)
              seg == segments_info[i + 1]
          IN  /\ generated_log' = Append(generated_log, outcome)
              /\ generated_segments' =
                    IF outcome.kind = "empty" \/ IterationRaises(seg, outcome)
                    THEN generated_segments
                    ELSE Append(generated_segments, Reconcile(i, seg, outcome.frames))
    /\ UNCHANGED <<segments_info, r_pc>>
    /\ UNCHANGED mergeVars
    /\ UNCHANGED chunkVars
    /\ UNCHANGED synthVars
    /\ UNCHANGED trimVars
    /\ UNCHANGED analyzeVars
    /\ UNCHANGED gapVars
    /\ UNCHANGED enrichVars
    /\ UNCHANGED alignVars
    /\ UNCHANGED runsVars
    /\ UNCHANGED pairVars
    /\ UNCHANGED featVars
    /\ UNCHANGED gapMergeVars
    /\ UNCHANGED mixVars

\* line 192: the loop is over
FinishGeneration ==
    /\ r_pc = "generate"
    /\ Len(generated_log) = Len(segments_info)
    /\ r_pc' = "merge"
    /\ UNCHANGED <<segments_info, generated_log, generated_segments>>
    /\ UNCHANGED mergeVars
    /\ UNCHANGED chunkVars
    /\ UNCHANGED synthVars
    /\ UNCHANGED trimVars
    /\ UNCHANGED analyzeVars
    /\ UNCHANGED gapVars
    /\ UNCHANGED enrichVars
    /\ UNCHANGED alignVars
    /\ UNCHANGED runsVars
    /\ UNCHANGED pairVars
    /\ UNCHANGED featVars
    /\ UNCHANGED gapMergeVars
    /\ UNCHANGED mixVars

NextRecon == GenerateSegment \/ FinishGeneration

SpecRecon == InitRecon /\ [][NextRecon]_vars

----------------------------------------------------------------------------
(* merge_spanish_timeline.py *)

\* Bounds of the model
MaxFolders == 2

\* part names a folder's segment file can map to (part_mapping values)
PartNames == {"part1", "part2", "part5", "part6"}

\* absolute time ranges (ms) an analysis record can carry
PlacementChoices == { <<0, 3000>>, <<2000, 4000>>, <<5000, 8000>> }

\* rendered lengths (ms) of a merged part file
VocalLenChoices == { NoFile, 1500, 2800, 3600, 4000, 4200, 7100 }

\* part_mapping + the reuse branch: the part whose merged file is overlaid
ReusedFromSwapped(part_name) ==
    IF part_name = "part5" THEN "part2"
    ELSE IF part_name = "part6" THEN "part1"
    ELSE part_name

ReusedFrom(part_name) ==
    IF part_name = "part5" THEN "part1"
    ELSE IF part_name = "part6" THEN "part2"
    ELSE part_name

\* the discovery loop: one entry per folder whose vocal file exists
RECURSIVE CollectSegments(_, _)
CollectSegments(fs, files) ==
    IF fs = << >> THEN << >>
    ELSE LET f == Head(fs)
             src == ReusedFrom(f.part_name)
             rest == CollectSegments(Tail(fs), files)
         IN  IF files[src] = NoFile
             THEN rest
             ELSE << [ part_name  |-> f.part_name,
                       start_time |-> f.start,
                       end_time   |-> f.end,
                       duration   |-> f.end - f.start,
                       vocal_file |-> src ] >> \o rest

\* list.sort(key=start_time): stable insertion
DiscoveryOrder(s) == s

RECURSIVE InsertByStart(_, _)
InsertByStart(s, e) ==
    IF s = << >> THEN << e >>
    ELSE IF e.start_time < Head(s).start_time
         THEN << e >> \o s
         ELSE << Head(s) >> \o InsertByStart(Tail(s), e)

RECURSIVE SortByStart(_)
SortByStart(s) ==
    IF s = << >> THEN << >>
    ELSE InsertByStart(SortByStart(SubSeq(s, 1, Len(s) - 1)), s[Len(s)])

\* vocal_audio.speedup(playback_speed = v / d): resulting length in ms
\* (pydub.effects.speedup with chunk_size=150, crossfade=25)
SpeedupLen(v, d) ==
    LET fast == v >= 2 * d
        rm0 == IF fast THEN 150 ELSE (150 * (v - d)) \div d
        cs  == IF fast THEN (150 * d) \div (v - d) ELSE 150
        crossfade == Min(25, rm0 - 1)
        n == CeilDiv(v, cs + rm0)
        last == v - (n - 1) * (cs + rm0)
    IN  (n - 1) * cs + crossfade + last

\* the duration check of the overlay loop: length of the audio that is overlaid
Tolerance == 1000

AdjustedLen(v, d) ==
    IF Abs(v - d) > Tolerance /\ v > d THEN SpeedupLen(v, d) ELSE v

IsAdjusted(v, d) == Abs(v - d) > Tolerance /\ v > d

\* overlay_position_ms = int(seg['start_time'] * 1000)
PositionAfterPrevious(seg, done) ==
    IF done = << >> THEN seg.start_time
    ELSE Max(seg.start_time, done[Len(done)].position + done[Len(done)].audio_len)

OverlayPosition(seg, done) == seg.start_time

\* base_track.overlay(vocal_audio, position): the master keeps its length,
\* audio past its end is cut
OverlayGrow(track, id, audio_len, position) ==
    [ len |-> Max(track.len, position + audio_len),
      mix |-> track.mix \cup { [ id |-> id, from |-> position, to |-> position + audio_len ] } ]

OverlayLoop(track, id, audio_len, position) ==
    [ len |-> track.len,
      mix |-> track.mix \cup { [ id |-> id, from |-> Min(position, track.len),
                                 to |-> IF audio_len > 0 THEN track.len
                                        ELSE Min(position, track.len) ] } ]

Overlay(track, id, audio_len, position) ==
    LET from == Min(position, track.len)
        to   == Min(position + audio_len, track.len)
    IN  [ len |-> track.len,
          mix |-> track.mix \cup { [ id |-> id, from |-> from, to |-> to ] } ]

FolderRecords ==
    { [ part_name |-> p, start |-> pl[1], end |-> pl[2] ] :
        p \in PartNames, pl \in PlacementChoices }

FolderLists == UNION { [1..n -> FolderRecords] : n \in 0..MaxFolders }

InitMerge ==
    /\ ChunkIdle
    /\ ReconIdle
    /\ SynthIdle
    /\ TrimIdle
    /\ AnalyzeIdle
    /\ GapIdle
    /\ EnrichIdle
    /\ AlignIdle
    /\ RunsIdle
    /\ PairIdle
    /\ FeatIdle
    /\ GapMergeIdle
    /\ MixIdle
    /\ folders \in FolderLists
    /\ vocal_files \in [ {"part1", "part2"} -> VocalLenChoices ]
    /\ segment_info = << >>
    /\ base_track = Silent(0)
    /\ overlaid = << >>
    /\ m_pc = "scan"

\* lines 36-119: discovery, sort, early return, silent base track
BuildTimeline ==
    /\ m_pc = "scan"
    /\ LET info == SortByStart(CollectSegments(folders, vocal_files))
       IN  /\ segment_info' = info
           /\ IF info = << >>
              THEN /\ m_pc' = "none"
                   /\ base_track' = base_track
              ELSE /\ m_pc' = "overlay"
                   /\ base_track' =
                        Silent(SetMax({ info[i].end_time : i \in 1..Len(info) }))
    /\ UNCHANGED <<folders, vocal_files, overlaid>>
    /\ UNCHANGED chunkVars
    /\ UNCHANGED synthVars
    /\ UNCHANGED reconVars
    /\ UNCHANGED trimVars
    /\ UNCHANGED analyzeVars
    /\ UNCHANGED gapVars
    /\ UNCHANGED enrichVars
    /\ UNCHANGED alignVars
    /\ UNCHANGED runsVars
    /\ UNCHANGED pairVars
    /\ UNCHANGED featVars
    /\ UNCHANGED gapMergeVars
    /\ UNCHANGED mixVars

\* lines 122-150: one iteration of the overlay loop
OverlaySegment ==
    /\ m_pc = "overlay"
    /\ Len(overlaid) < Len(segment_info)
    /\ LET k == Len(overlaid) + 1
           seg == segment_info[k]
           v == vocal_files[seg.vocal_file]
           audio_len == AdjustedLen(v, seg.duration)
           position == OverlayPosition(seg, overlaid)
       IN  /\ base_track' = Overlay(base_track, k, audio_len, position)
           /\ overlaid' = Append(overlaid,
                            [ vocal_len |-> v,
                              audio_len |-> audio_len,
                              adjusted  |-> IsAdjusted(v, seg.duration),
                              position  |-> position ])
    /\ UNCHANGED <<folders, vocal_files, segment_info, m_pc>>
    /\ UNCHANGED chunkVars
    /\ UNCHANGED synthVars
    /\ UNCHANGED reconVars
    /\ UNCHANGED trimVars
    /\ UNCHANGED analyzeVars
    /\ UNCHANGED gapVars
    /\ UNCHANGED enrichVars
    /\ UNCHANGED alignVars
    /\ UNCHANGED runsVars
    /\ UNCHANGED pairVars
    /\ UNCHANGED featVars
    /\ UNCHANGED gapMergeVars
    /\ UNCHANGED mixVars

\* lines 152-168: export of the finished track
ExportTimeline ==
    /\ m_pc = "overlay"
    /\ Len(overlaid) = Len(segment_info)
    /\ m_pc' = "done"
    /\ UNCHANGED <<folders, vocal_files, segment_info, base_track, overlaid>>
    /\ UNCHANGED chunkVars
    /\ UNCHANGED synthVars
    /\ UNCHANGED reconVars
    /\ UNCHANGED trimVars
    /\ UNCHANGED analyzeVars
    /\ UNCHANGED gapVars
    /\ UNCHANGED enrichVars
    /\ UNCHANGED alignVars
    /\ UNCHANGED runsVars
    /\ UNCHANGED pairVars
    /\ UNCHANGED featVars
    /\ UNCHANGED gapMergeVars
    /\ UNCHANGED mixVars

NextMerge == BuildTimeline \/ OverlaySegment \/ ExportTimeline

SpecMerge == InitMerge /\ [][NextMerge]_vars

----------------------------------------------------------------------------
(* trim_segment.py: trim_segment_to_word *)

\* Bounds of the model
MaxTrimWords == 3

\* the word the segment is trimmed at
TargetWord == "feliz"

\* words the transcription may hold
TrimVocabulary == {"la", "feliz", "Feliz"}

\* str.lower()
Lower(w) == IF w = "Feliz" THEN "feliz" ELSE w

\* every word lasts 300 ms and starts 500 ms after the previous one (ms)
TrimWordStart(k) == 500 * k + 100
TrimWordEnd(k) == 500 * k + 400
TrimRegionLen(n) == 500 * n

\* absolute start of the analysed region (ms)
RegionStartChoices == {0, 6000}

\* times (ms) of a feature series sampled every step ms over a region
RECURSIVE SampleTimes(_, _, _)
SampleTimes(from, step, until) ==
    IF from > until THEN << >>
    ELSE << from >> \o SampleTimes(from + step, step, until)

\* analyze_vocals_precise.py main: the report of a region with the given words
AnalysisReport(words, region_start) ==
    LET n == Len(words)
        timings == [ k \in 1..n |->
                       [ index |-> k - 1, word |-> words[k],
                         start |-> TrimWordStart(k - 1),
                         end |-> TrimWordEnd(k - 1) ] ]
    IN  [ segment_file |-> "segment.wav",
          segment_range |-> [ start |-> region_start,
                              end |-> region_start + TrimRegionLen(n),
                              duration |-> TrimRegionLen(n) ],
          audio_analysis |->
              [ duration |-> TrimRegionLen(n),
                beat_times |-> SampleTimes(250, 500, TrimRegionLen(n)),
                onset_times |-> [ k \in 1..n |-> TrimWordStart(k - 1) ],
                pitch_contour |-> SampleTimes(0, 200, TrimRegionLen(n)),
                energy_contour |-> SampleTimes(0, 250, TrimRegionLen(n)),
                gaps |-> [ k \in 1..n |->
                             [ start |-> TrimWordEnd(k - 1),
                               end |-> TrimWordEnd(k - 1) + 200 ] ] ],
          transcription |->
              [ full_text |-> words,
                word_timings |-> timings,
                segments |-> [ k \in 1..n |->
                                 [ start |-> TrimWordStart(k - 1),
                                   end |-> TrimWordEnd(k - 1) ] ] ],
          word_segments |-> [ k \in 1..n |-> [ index |-> k - 1, word |-> words[k] ] ],
          summary |-> [ total_words |-> n, silent_gaps |-> n ] ]

WordLists == UNION { [1..n -> TrimVocabulary] : n \in 1..MaxTrimWords }

\* the nested dicts of a report, which a dict holds by reference
Refs == {"segment_range", "audio_analysis", "transcription", "summary"}

\* json.load: a top-level dict and one object per nested dict
LoadTop(report) == [ f \in DOMAIN report |-> IF f \in Refs THEN f ELSE report[f] ]
LoadHeap(report) == [ r \in Refs |-> report[r] ]

\* json.dump: the value written for a top-level dict
Dump(top, h) == [ f \in DOMAIN top |-> IF f \in Refs THEN h[top[f]] ELSE top[f] ]

\* lines 29-32: the first word equal to the target word, case ignored
RECURSIVE FindWord(_, _)
FindWord(timings, target_word) ==
    IF timings = << >> THEN None
    ELSE IF Lower(Head(timings).word) = Lower(target_word) THEN Head(timings)
         ELSE FindWord(Tail(timings), target_word)

\* lines 72-73: the entries whose index is not above the target index
FilterBefore(entries, target_index) ==
    SelectSeq(entries, LAMBDA w : w.index < target_index)

FilterUpTo(entries, target_index) ==
    SelectSeq(entries, LAMBDA w : w.index <= target_index)

\* line 88: the words of the entries, which ' '.join puts in a row
WordsOf(entries) == [ k \in 1..Len(entries) |-> entries[k].word ]

InitTrim ==
    /\ MergeIdle
    /\ ChunkIdle
    /\ SynthIdle
    /\ ReconIdle
    /\ AnalyzeIdle
    /\ GapIdle
    /\ EnrichIdle
    /\ AlignIdle
    /\ RunsIdle
    /\ PairIdle
    /\ FeatIdle
    /\ GapMergeIdle
    /\ MixIdle
    /\ report_file \in
          { AnalysisReport(w, rs) : w \in WordLists, rs \in RegionStartChoices }
          \cup { None }
    /\ segment_file_exists \in BOOLEAN
    /\ analysis = None
    /\ heap = << >>
    /\ target_word_data = None
    /\ trimmed_audio = 0
    /\ updated_analysis = None
    /\ trimmed_report_file = None
    /\ t_pc = "start"

\* lines 16-23: the report is loaded, or the function returns
LoadReport ==
    /\ t_pc = "start"
    /\ IF report_file = None
       THEN /\ t_pc' = "returned"
            /\ UNCHANGED <<analysis, heap>>
       ELSE /\ analysis' = LoadTop(report_file)
            /\ heap' = LoadHeap(report_file)
            /\ t_pc' = "loaded"
    /\ UNCHANGED <<report_file, segment_file_exists, target_word_data, trimmed_audio,
                   updated_analysis, trimmed_report_file>>
    /\ UNCHANGED mergeVars
    /\ UNCHANGED chunkVars
    /\ UNCHANGED synthVars
    /\ UNCHANGED reconVars
    /\ UNCHANGED analyzeVars
    /\ UNCHANGED gapVars
    /\ UNCHANGED enrichVars
    /\ UNCHANGED alignVars
    /\ UNCHANGED runsVars
    /\ UNCHANGED pairVars
    /\ UNCHANGED featVars
    /\ UNCHANGED gapMergeVars
    /\ UNCHANGED mixVars

\* lines 25-37: search of the target word
FindTargetWord ==
    /\ t_pc = "loaded"
    /\ target_word_data' =
          FindWord(heap[analysis.transcription].word_timings, TargetWord)
    /\ t_pc' = IF target_word_data' = None THEN "returned" ELSE "found"
    /\ UNCHANGED <<report_file, segment_file_exists, analysis, heap, trimmed_audio,
                   updated_analysis, trimmed_report_file>>
    /\ UNCHANGED mergeVars
    /\ UNCHANGED chunkVars
    /\ UNCHANGED synthVars
    /\ UNCHANGED reconVars
    /\ UNCHANGED analyzeVars
    /\ UNCHANGED gapVars
    /\ UNCHANGED enrichVars
    /\ UNCHANGED alignVars
    /\ UNCHANGED runsVars
    /\ UNCHANGED pairVars
    /\ UNCHANGED featVars
    /\ UNCHANGED gapMergeVars
    /\ UNCHANGED mixVars

\* lines 39-68: the audio is cut at the end of the target word
TrimAudio ==
    /\ t_pc = "found"
    /\ IF segment_file_exists
       THEN /\ trimmed_audio' =
                  Min(heap[analysis.audio_analysis].duration, target_word_data.end)
            /\ t_pc' = "trimmed"
       ELSE /\ t_pc' = "returned"
            /\ UNCHANGED trimmed_audio
    /\ UNCHANGED <<report_file, segment_file_exists, analysis, heap, target_word_data,
                   updated_analysis, trimmed_report_file>>
    /\ UNCHANGED mergeVars
    /\ UNCHANGED chunkVars
    /\ UNCHANGED synthVars
    /\ UNCHANGED reconVars
    /\ UNCHANGED analyzeVars
    /\ UNCHANGED gapVars
    /\ UNCHANGED enrichVars
    /\ UNCHANGED alignVars
    /\ UNCHANGED runsVars
    /\ UNCHANGED pairVars
    /\ UNCHANGED featVars
    /\ UNCHANGED gapMergeVars
    /\ UNCHANGED mixVars

\* lines 70-89: the updated report is built on a copy of the top-level dict
UpdateAnalysis ==
    /\ t_pc = "trimmed"
    /\ LET trim_end_time == target_word_data.end
           target_index == target_word_data.index
           filtered_words ==
               FilterUpTo(heap[analysis.transcription].word_timings, target_index)
           filtered_word_segments == FilterUpTo(analysis.word_segments, target_index)
           copy == analysis
       IN  /\ updated_analysis' =
                 [ copy EXCEPT !.segment_file = "segment_trimmed.wav",
                               !.word_segments = filtered_word_segments ]
           /\ heap' =
                 [ heap EXCEPT
                     ![copy.segment_range] =
                         [ @ EXCEPT !.end = heap[analysis.segment_range].start
                                              + trim_end_time,
                                    !.duration = trim_end_time ],
                     ![copy.audio_analysis] = [ @ EXCEPT !.duration = trim_end_time ],
                     ![copy.transcription] =
                         [ @ EXCEPT !.word_timings = filtered_words,
                                    !.full_text = WordsOf(filtered_words) ],
                     ![copy.summary] =
                         [ @ EXCEPT !.total_words = Len(filtered_words) ] ]
    /\ t_pc' = "updated"
    /\ UNCHANGED <<report_file, segment_file_exists, analysis, target_word_data,
                   trimmed_audio, trimmed_report_file>>
    /\ UNCHANGED mergeVars
    /\ UNCHANGED chunkVars
    /\ UNCHANGED synthVars
    /\ UNCHANGED reconVars
    /\ UNCHANGED analyzeVars
    /\ UNCHANGED gapVars
    /\ UNCHANGED enrichVars
    /\ UNCHANGED alignVars
    /\ UNCHANGED runsVars
    /\ UNCHANGED pairVars
    /\ UNCHANGED featVars
    /\ UNCHANGED gapMergeVars
    /\ UNCHANGED mixVars

\* lines 91-94: the updated report is written to analysis_report_trimmed.json
SaveTrimmedReport ==
    /\ t_pc = "updated"
    /\ trimmed_report_file' = Dump(updated_analysis, heap)
    /\ t_pc' = "saved"
    /\ UNCHANGED <<report_file, segment_file_exists, analysis, heap, target_word_data,
                   trimmed_audio, updated_analysis>>
    /\ UNCHANGED mergeVars
    /\ UNCHANGED chunkVars
    /\ UNCHANGED synthVars
    /\ UNCHANGED reconVars
    /\ UNCHANGED analyzeVars
    /\ UNCHANGED gapVars
    /\ UNCHANGED enrichVars
    /\ UNCHANGED alignVars
    /\ UNCHANGED runsVars
    /\ UNCHANGED pairVars
    /\ UNCHANGED featVars
    /\ UNCHANGED gapMergeVars
    /\ UNCHANGED mixVars

NextTrim ==
    LoadReport \/ FindTargetWord \/ TrimAudio \/ UpdateAnalysis \/ SaveTrimmedReport

SpecTrim == InitTrim /\ [][NextTrim]_vars

----------------------------------------------------------------------------
(* analyze_specific_segment.py: extract_and_analyze_specific_segment *)

\* Bounds of the model
MaxEngineWords == 3

\* absolute start of the region (ms): the segments of main start at 6, 22, 35
\* and 52 s
StartTimeChoices == {0, 6000, 22000}

\* word spans (start, end) in ms the engine may return; a word may have no
\* length
EngineWordChoices == { <<0, 300>>, <<300, 300>>, <<300, 800>>, <<800, 1200>> }

\* transcripts of the engine: words in time order
EngineTranscripts ==
    { s \in UNION { [1..n -> EngineWordChoices] : n \in 0..MaxEngineWords } :
        \A k \in 1..(Len(s) - 1) : s[k][2] <= s[k + 1][1] }

\* relative times (ms) of the pitch contour and of the energy frames
PitchTimes == {250, 500, 1000}
RmsTimes == {0, 250, 500, 750, 1000, 1250}

\* lines 105-135: word_data of word i
WordData(i, word, region_start) ==
    LET time_relative_start == word[1]
        time_relative_end == word[2]
        time_absolute_start == region_start + time_relative_start
        time_absolute_end == region_start + time_relative_end
    IN  [ index |-> i,
          time_relative |-> [ start |-> time_relative_start,
                              end |-> time_relative_end,
                              duration |-> time_relative_end - time_relative_start ],
          time_absolute |-> [ start |-> time_absolute_start,
                              end |-> time_absolute_end,
                              duration |-> time_absolute_end - time_absolute_start ],
          \* the samples avg_pitch_hz and avg_energy_db are the mean of; the key
          \* is set only when there is one
          pitch_samples |->
              { t \in PitchTimes : time_relative_start <= t /\ t <= time_relative_end },
          energy_samples |->
              { t \in RmsTimes : time_relative_start <= t /\ t <= time_relative_end } ]

InitAnalyze ==
    /\ MergeIdle
    /\ ChunkIdle
    /\ SynthIdle
    /\ ReconIdle
    /\ TrimIdle
    /\ GapIdle
    /\ EnrichIdle
    /\ AlignIdle
    /\ RunsIdle
    /\ PairIdle
    /\ FeatIdle
    /\ GapMergeIdle
    /\ MixIdle
    /\ start_time \in StartTimeChoices
    /\ transcription_words \in EngineTranscripts
    /\ word_timings_dual = << >>
    /\ a_pc = "words"

\* lines 104-141: one iteration of the loop over transcription.words
BuildWordData ==
    /\ a_pc = "words"
    /\ Len(word_timings_dual) < Len(transcription_words)
    /\ LET i == Len(word_timings_dual)
       IN  word_timings_dual' =
              Append(word_timings_dual,
                     WordData(i, transcription_words[i + 1], start_time))
    /\ UNCHANGED <<start_time, transcription_words, a_pc>>
    /\ UNCHANGED mergeVars
    /\ UNCHANGED chunkVars
    /\ UNCHANGED synthVars
    /\ UNCHANGED reconVars
    /\ UNCHANGED trimVars
    /\ UNCHANGED gapVars
    /\ UNCHANGED enrichVars
    /\ UNCHANGED alignVars
    /\ UNCHANGED runsVars
    /\ UNCHANGED pairVars
    /\ UNCHANGED featVars
    /\ UNCHANGED gapMergeVars
    /\ UNCHANGED mixVars

\* lines 143-174: the analysis is assembled and saved
SaveAnalysis ==
    /\ a_pc = "words"
    /\ Len(word_timings_dual) = Len(transcription_words)
    /\ a_pc' = "saved"
    /\ UNCHANGED <<start_time, transcription_words, word_timings_dual>>
    /\ UNCHANGED mergeVars
    /\ UNCHANGED chunkVars
    /\ UNCHANGED synthVars
    /\ UNCHANGED reconVars
    /\ UNCHANGED trimVars
    /\ UNCHANGED gapVars
    /\ UNCHANGED enrichVars
    /\ UNCHANGED alignVars
    /\ UNCHANGED runsVars
    /\ UNCHANGED pairVars
    /\ UNCHANGED featVars
    /\ UNCHANGED gapMergeVars
    /\ UNCHANGED mixVars

NextAnalyze == BuildWordData \/ SaveAnalysis

SpecAnalyze == InitAnalyze /\ [][NextAnalyze]_vars

----------------------------------------------------------------------------
(* analyze_vocals_precise.py: analyze_audio_detailed, silence detection *)

\* Bounds of the model
NumFrames == 48

\* hop_length: samples between two frames; frame i is at time i * 512 / sr
HopLength == 512

\* sample rates of the analysed audio, Hz
SampleRateChoices == {8000, 22050}

\* quiet runs of frames: first frame (0-based) and length
QuietStartChoices == {0, 10, 30}
QuietLenChoices == {0, 1, 3, 6, 7, 8}

QuietRun(a, l) == { i \in a..(a + l - 1) : i < NumFrames }

\* a quiet run that lasts until the final frame
TrailingRun(l) == (NumFrames - l)..(NumFrames - 1)

QuietRuns ==
    { QuietRun(a, l) : a \in QuietStartChoices, l \in QuietLenChoices }
    \cup { TrailingRun(l) : l \in QuietLenChoices }

\* rms of a region that is quiet in the given frames (rms[i + 1] is frame i)
RmsOf(quiet) == [ k \in 1..NumFrames |-> IF (k - 1) \in quiet THEN 1 ELSE 5 ]

\* j-th smallest value (0-based) of a series
KthSmallest(series, j) ==
    LET values == { series[k] : k \in 1..Len(series) }
        upto(v) == Cardinality({ k \in 1..Len(series) : series[k] <= v })
    IN  CHOOSE v \in values :
            /\ upto(v) >= j + 1
            /\ \A u \in values : u < v => upto(u) < j + 1

\* line 185: np.percentile(rms, 15) with linear interpolation, times 100
Percentile15Times100(series) ==
    LET pos == 15 * (Len(series) - 1)
        lo == pos \div 100
        hi == IF pos % 100 = 0 THEN lo ELSE lo + 1
    IN  100 * KthSmallest(series, lo)
          + (pos % 100) * (KthSmallest(series, hi) - KthSmallest(series, lo))

\* line 186: silence_mask = rms < threshold (0-based frame index)
SilenceMask(series, i) == 100 * series[i + 1] < Percentile15Times100(series)

\* line 198: gap_end - gap_start > 0.15, for frame times i * HopLength / sr
LongerThanMinGap(gap_start, gap_end, rate) ==
    100 * HopLength * (gap_end - gap_start) > 15 * rate

\* lines 188-204: the loop over the frames, from frame i on
RECURSIVE DetectGaps(_, _, _, _, _)
DetectGaps(series, rate, i, in_gap, gap_start) ==
    IF i >= Len(series) THEN << >>
    ELSE IF SilenceMask(series, i) /\ ~in_gap
         THEN DetectGaps(series, rate, i + 1, TRUE, i)
    ELSE IF ~SilenceMask(series, i) /\ in_gap
         THEN (IF LongerThanMinGap(gap_start, i, rate)
               THEN << [ start |-> gap_start, end |-> i,
                          duration |-> i - gap_start ] >>
               ELSE << >>)
              \o DetectGaps(series, rate, i + 1, FALSE, gap_start)
    ELSE DetectGaps(series, rate, i + 1, in_gap, gap_start)

InitGap ==
    /\ MergeIdle
    /\ ChunkIdle
    /\ SynthIdle
    /\ ReconIdle
    /\ TrimIdle
    /\ AnalyzeIdle
    /\ EnrichIdle
    /\ AlignIdle
    /\ RunsIdle
    /\ PairIdle
    /\ FeatIdle
    /\ GapMergeIdle
    /\ MixIdle
    /\ sr \in SampleRateChoices
    /\ \E q1 \in QuietRuns : \E q2 \in QuietRuns : rms = RmsOf(q1 \cup q2)
    /\ gaps = << >>
    /\ g_pc = "energy"

\* lines 183-204: silence detection
DetectSilence ==
    /\ g_pc = "energy"
    /\ gaps' = DetectGaps(rms, sr, 0, FALSE, 0)
    /\ g_pc' = "gaps"
    /\ UNCHANGED <<sr, rms>>
    /\ UNCHANGED mergeVars
    /\ UNCHANGED chunkVars
    /\ UNCHANGED synthVars
    /\ UNCHANGED reconVars
    /\ UNCHANGED trimVars
    /\ UNCHANGED analyzeVars
    /\ UNCHANGED enrichVars
    /\ UNCHANGED alignVars
    /\ UNCHANGED runsVars
    /\ UNCHANGED pairVars
    /\ UNCHANGED featVars
    /\ UNCHANGED gapMergeVars
    /\ UNCHANGED mixVars

\* lines 206-242: the gaps are printed and returned with the analysis
ReturnAnalysis ==
    /\ g_pc = "gaps"
    /\ g_pc' = "returned"
    /\ UNCHANGED <<sr, rms, gaps>>
    /\ UNCHANGED mergeVars
    /\ UNCHANGED chunkVars
    /\ UNCHANGED synthVars
    /\ UNCHANGED reconVars
    /\ UNCHANGED trimVars
    /\ UNCHANGED analyzeVars
    /\ UNCHANGED enrichVars
    /\ UNCHANGED alignVars
    /\ UNCHANGED runsVars
    /\ UNCHANGED pairVars
    /\ UNCHANGED featVars
    /\ UNCHANGED gapMergeVars
    /\ UNCHANGED mixVars

NextGap == DetectSilence \/ ReturnAnalysis

SpecGap == InitGap /\ [][NextGap]_vars

----------------------------------------------------------------------------
(* analyze_vocals_precise.py: enrich_word_timings_with_features *)

\* Bounds of the model
MaxEnrichWords == 3

\* word spans (start, end) in ms: ends on sample times, strictly between two
\* samples, of no length, and a long one
EnrichWordChoices ==
    { <<100, 400>>, <<150, 350>>, <<410, 450>>, <<450, 450>>, <<500, 900>> }

EnrichWordLists ==
    { s \in UNION { [1..n -> EnrichWordChoices] : n \in 0..MaxEnrichWords } :
        \A k \in 1..(Len(s) - 1) : s[k][2] <= s[k + 1][1] }

\* pitch contours: frames without a positive pitch estimate are not in them
PitchContourChoices ==
    { << [ time |-> 100, pitch_hz |-> 220 ], [ time |-> 200, pitch_hz |-> 247 ],
         [ time |-> 400, pitch_hz |-> 196 ], [ time |-> 900, pitch_hz |-> 330 ] >>,
      << [ time |-> 300, pitch_hz |-> 262 ], [ time |-> 500, pitch_hz |-> 294 ],
         [ time |-> 600, pitch_hz |-> 220 ] >>,
      << >> }

\* energy frames every step ms over one second, in dB below the maximum
EnergyFrames(step) ==
    [ k \in 1..((1000 \div step) + 1) |->
        [ time |-> (k - 1) * step, energy_db |-> 0 - ((7 * k) % 30) ] ]

EnergyFrameChoices == { EnergyFrames(100), EnergyFrames(300) }

\* lines 332 and 341: start <= t <= end
InWordHalfOpen(t, start, end) == start <= t /\ t < end

InWord(t, start, end) == start <= t /\ t <= end

\* the values of a series of samples that fall into a word
ValuesIn(samples, field, start, end) ==
    LET ks == { k \in 1..Len(samples) : InWord(samples[k].time, start, end) }
    IN  [ count |-> Cardinality(ks),
          values |-> { samples[k][field] : k \in ks },
          sum |-> LET RECURSIVE SumFrom(_)
                      SumFrom(k) ==
                          IF k > Len(samples) THEN 0
                          ELSE (IF k \in ks THEN samples[k][field] ELSE 0)
                               + SumFrom(k + 1)
                  IN  SumFrom(1) ]

SetMin(S) == CHOOSE x \in S : \A y \in S : x <= y

\* lines 328-356: the word with its energy and pitch fields; a mean is kept as
\* <<sum, count>>
EnrichWord(word, contour, frames) ==
    LET start == word[1]
        end == word[2]
        e == ValuesIn(frames, "energy_db", start, end)
        p == ValuesIn(contour, "pitch_hz", start, end)
    IN  [ start |-> start,
          end |-> end,
          avg_energy_db |-> IF e.count > 0 THEN Num(<< e.sum, e.count >>) ELSE Null,
          max_energy_db |-> IF e.count > 0 THEN Num(SetMax(e.values)) ELSE Null,
          avg_pitch_hz |-> IF p.count > 0 THEN Num(<< p.sum, p.count >>) ELSE Null,
          min_pitch_hz |-> IF p.count > 0 THEN Num(SetMin(p.values)) ELSE Null,
          max_pitch_hz |-> IF p.count > 0 THEN Num(SetMax(p.values)) ELSE Null,
          pitch_range_hz |->
              IF p.count > 0 THEN Num(SetMax(p.values) - SetMin(p.values)) ELSE Null,
          \* hz_to_note(avg_pitch_hz), a note name
          avg_note |-> IF p.count > 0 THEN Num("note") ELSE Null ]

InitEnrich ==
    /\ MergeIdle
    /\ ChunkIdle
    /\ SynthIdle
    /\ ReconIdle
    /\ TrimIdle
    /\ AnalyzeIdle
    /\ GapIdle
    /\ AlignIdle
    /\ RunsIdle
    /\ PairIdle
    /\ FeatIdle
    /\ GapMergeIdle
    /\ MixIdle
    /\ timed_words \in EnrichWordLists
    /\ pitch_contour \in PitchContourChoices
    /\ rms_frames \in EnergyFrameChoices
    /\ enriched = << >>
    /\ e_pc = "words"

\* lines 327-363: one iteration of the loop over the words
EnrichNextWord ==
    /\ e_pc = "words"
    /\ Len(enriched) < Len(timed_words)
    /\ enriched' =
          Append(enriched,
                 EnrichWord(timed_words[Len(enriched) + 1], pitch_contour, rms_frames))
    /\ UNCHANGED <<timed_words, pitch_contour, rms_frames, e_pc>>
    /\ UNCHANGED mergeVars
    /\ UNCHANGED chunkVars
    /\ UNCHANGED synthVars
    /\ UNCHANGED reconVars
    /\ UNCHANGED trimVars
    /\ UNCHANGED analyzeVars
    /\ UNCHANGED gapVars
    /\ UNCHANGED alignVars
    /\ UNCHANGED runsVars
    /\ UNCHANGED pairVars
    /\ UNCHANGED featVars
    /\ UNCHANGED gapMergeVars
    /\ UNCHANGED mixVars

\* line 365: the enriched list is returned
ReturnEnriched ==
    /\ e_pc = "words"
    /\ Len(enriched) = Len(timed_words)
    /\ e_pc' = "returned"
    /\ UNCHANGED <<timed_words, pitch_contour, rms_frames, enriched>>
    /\ UNCHANGED mergeVars
    /\ UNCHANGED chunkVars
    /\ UNCHANGED synthVars
    /\ UNCHANGED reconVars
    /\ UNCHANGED trimVars
    /\ UNCHANGED analyzeVars
    /\ UNCHANGED gapVars
    /\ UNCHANGED alignVars
    /\ UNCHANGED runsVars
    /\ UNCHANGED pairVars
    /\ UNCHANGED featVars
    /\ UNCHANGED gapMergeVars
    /\ UNCHANGED mixVars

NextEnrich == EnrichNextWord \/ ReturnEnriched

SpecEnrich == InitEnrich /\ [][NextEnrich]_vars

----------------------------------------------------------------------------
(* analyze_vocals_precise.py: transcribe_with_word_timestamps *)

\* Bounds of the model
MaxEngineSegments == 2
MaxAlignWords == 2

\* a text is a sequence of characters; Space stands for any whitespace
Space == " "

\* str.strip()
RECURSIVE StripLeft(_)
StripLeft(s) ==
    IF s # << >> /\ Head(s) = Space THEN StripLeft(Tail(s)) ELSE s

RECURSIVE StripRight(_)
StripRight(s) ==
    IF s # << >> /\ s[Len(s)] = Space
    THEN StripRight(SubSeq(s, 1, Len(s) - 1))
    ELSE s

Strip(s) == StripRight(StripLeft(s))

\* what the engine can return: texts with and without surrounding whitespace
EngineTexts == { << "t" >>, << Space, "v" >>, << Space, "v", Space, "t" >> }

EngineSegmentChoices ==
    { [ text |-> x, start |-> t[1], end |-> t[2], id |-> 0 ] :
        x \in EngineTexts, t \in { <<0, 2200>>, <<3000, 6140>> } }

EngineWordRecords ==
    { [ word |-> x, start |-> t[1], end |-> t[2] ] :
        x \in { << "t" >>, << Space, "v" >> }, t \in { <<0, 300>>, <<800, 1200>> } }

\* the 'words', 'segments' and 'language' attributes may be missing from the
\* response, be None, or be a (possibly empty) list
AttrStates == { "absent", "none", "list" }

\* word lists and segment lists in time order; an attribute that is not a
\* list carries no list
EngineWordLists(attr) ==
    IF attr # "list" THEN { << >> }
    ELSE { ws \in UNION { [1..n -> EngineWordRecords] : n \in 0..MaxAlignWords } :
             \A k \in 1..(Len(ws) - 1) : ws[k].end <= ws[k + 1].start }

EngineSegmentLists(attr) ==
    IF attr # "list" THEN { << >> }
    ELSE { ss \in UNION { [1..n -> EngineSegmentChoices] : n \in 0..MaxEngineSegments } :
             \A k \in 1..(Len(ss) - 1) : ss[k].end <= ss[k + 1].start }

EngineResponses ==
    UNION { { [ text |-> x, words_attr |-> wa, words |-> ws,
                segments_attr |-> sa, segments |-> ss, language |-> l ] :
                x \in EngineTexts,
                ws \in EngineWordLists(wa),
                ss \in EngineSegmentLists(sa),
                l \in { "absent", "portuguese" } } :
            wa \in AttrStates, sa \in AttrStates }

OnsetChoices == { << >>, << 100, 700 >> }

\* line 268: hasattr(transcription, 'words') and transcription.words
HasWords(resp) == resp.words_attr = "list" /\ resp.words # << >>

HasSegmentsIfWords(resp) ==
    resp.segments_attr = "list" /\ resp.segments # << >> /\ HasWords(resp)

\* line 301: hasattr(transcription, 'segments') and transcription.segments
HasSegments(resp) == resp.segments_attr = "list" /\ resp.segments # << >>

\* line 286: min(onset_times, key=lambda o: abs(o - word.start)), the first
\* of the nearest onsets
NearestOnset(onsets, t) ==
    LET best == CHOOSE k \in 1..Len(onsets) :
                    /\ \A j \in 1..Len(onsets) : Abs(onsets[k] - t) <= Abs(onsets[j] - t)
                    /\ \A j \in 1..(k - 1) : Abs(onsets[j] - t) > Abs(onsets[k] - t)
    IN  onsets[best]

\* lines 274-288: word_data
AlignedWord(i, word, onsets) ==
    LET word_data == [ index |-> i,
                       word |-> Strip(word.word),
                       start |-> word.start,
                       end |-> word.end,
                       duration |-> word.end - word.start ]
    IN  IF onsets # << >>
        THEN [ index |-> word_data.index, word |-> word_data.word,
               start |-> word_data.start, end |-> word_data.end,
               duration |-> word_data.duration,
               onset_offset |-> word.start - NearestOnset(onsets, word.start) ]
        ELSE word_data

\* lines 304-308
AlignedSegment(seg) ==
    [ text |-> Strip(seg.text), start |-> seg.start, end |-> seg.end ]

InitAlign ==
    /\ MergeIdle
    /\ ChunkIdle
    /\ SynthIdle
    /\ ReconIdle
    /\ TrimIdle
    /\ AnalyzeIdle
    /\ GapIdle
    /\ EnrichIdle
    /\ RunsIdle
    /\ PairIdle
    /\ FeatIdle
    /\ GapMergeIdle
    /\ MixIdle
    /\ transcription \in EngineResponses
    /\ onset_times \in OnsetChoices
    /\ full_text = << >>
    /\ aligned_words = << >>
    /\ aligned_segments = << >>
    /\ transcript = None
    /\ al_pc = "transcribed"

\* lines 262-297: full_text and the word loop
ExtractWordTimings ==
    /\ al_pc = "transcribed"
    /\ full_text' = transcription.text
    /\ aligned_words' =
          IF HasWords(transcription)
          THEN [ k \in 1..Len(transcription.words) |->
                   AlignedWord(k - 1, transcription.words[k], onset_times) ]
          ELSE << >>
    /\ al_pc' = "words"
    /\ UNCHANGED <<transcription, onset_times, aligned_segments, transcript>>
    /\ UNCHANGED mergeVars
    /\ UNCHANGED chunkVars
    /\ UNCHANGED synthVars
    /\ UNCHANGED reconVars
    /\ UNCHANGED trimVars
    /\ UNCHANGED analyzeVars
    /\ UNCHANGED gapVars
    /\ UNCHANGED enrichVars
    /\ UNCHANGED runsVars
    /\ UNCHANGED pairVars
    /\ UNCHANGED featVars
    /\ UNCHANGED gapMergeVars
    /\ UNCHANGED mixVars

\* lines 299-309: the segment loop
ExtractSegments ==
    /\ al_pc = "words"
    /\ aligned_segments' =
          IF HasSegments(transcription)
          THEN [ k \in 1..Len(transcription.segments) |->
                   AlignedSegment(transcription.segments[k]) ]
          ELSE << >>
    /\ al_pc' = "segments"
    /\ UNCHANGED <<transcription, onset_times, full_text, aligned_words, transcript>>
    /\ UNCHANGED mergeVars
    /\ UNCHANGED chunkVars
    /\ UNCHANGED synthVars
    /\ UNCHANGED reconVars
    /\ UNCHANGED trimVars
    /\ UNCHANGED analyzeVars
    /\ UNCHANGED gapVars
    /\ UNCHANGED enrichVars
    /\ UNCHANGED runsVars
    /\ UNCHANGED pairVars
    /\ UNCHANGED featVars
    /\ UNCHANGED gapMergeVars
    /\ UNCHANGED mixVars

\* lines 311-316
ReturnTranscript ==
    /\ al_pc = "segments"
    /\ transcript' =
          [ full_text |-> full_text,
            word_timings |-> aligned_words,
            segments |-> aligned_segments,
            language |-> IF transcription.language # "absent"
                         THEN transcription.language ELSE "unknown" ]
    /\ al_pc' = "returned"
    /\ UNCHANGED <<transcription, onset_times, full_text, aligned_words, aligned_segments>>
    /\ UNCHANGED mergeVars
    /\ UNCHANGED chunkVars
    /\ UNCHANGED synthVars
    /\ UNCHANGED reconVars
    /\ UNCHANGED trimVars
    /\ UNCHANGED analyzeVars
    /\ UNCHANGED gapVars
    /\ UNCHANGED enrichVars
    /\ UNCHANGED runsVars
    /\ UNCHANGED pairVars
    /\ UNCHANGED featVars
    /\ UNCHANGED gapMergeVars
    /\ UNCHANGED mixVars

NextAlign == ExtractWordTimings \/ ExtractSegments \/ ReturnTranscript

SpecAlign == InitAlign /\ [][NextAlign]_vars

----------------------------------------------------------------------------
(* Stage runs on the data directory: where each stage writes its files *)

\* Bounds of the model
MaxRuns == 3

\* the stamp of a path that carries no run timestamp
NoStamp == 0

Languages == { "spanish", "italian" }

\* a path in a timestamped folder, and a path named after a language
Path(dir, stamp, name) == [ dir |-> dir, stamp |-> stamp, lang |-> "", name |-> name ]

LangPath(dir, language, name) ==
    [ dir |-> dir, stamp |-> NoStamp, lang |-> language, name |-> name ]

Exists(p) == \E f \in disk : f.path = p

\* open(..., 'w') / export: the file now belongs to the writing run
WriteAll(paths, run) ==
    { f \in disk : f.path \notin paths } \cup { [ path |-> p, run |-> run ] : p \in paths }

Clobbered(paths) == { p \in paths : Exists(p) }

\* trim_segment.py line 133, generate_from_analysis.py line 30:
\* sorted(run_* folders)[-1]
LatestRun == SetMax(run_folders)

\* one stage run: the clock has moved on, the run's writes are on the disk
StageRun(stage, outcome, paths) ==
    /\ Len(stage_log) < MaxRuns
    /\ clock' = clock + 1
    /\ disk' = WriteAll(paths, Len(stage_log) + 1)
    /\ overwritten' = overwritten \cup Clobbered(paths)
    /\ stage_log' = Append(stage_log, [ stage |-> stage, outcome |-> outcome ])

InitRuns ==
    /\ MergeIdle
    /\ ChunkIdle
    /\ SynthIdle
    /\ ReconIdle
    /\ TrimIdle
    /\ AnalyzeIdle
    /\ GapIdle
    /\ EnrichIdle
    /\ AlignIdle
    /\ PairIdle
    /\ FeatIdle
    /\ GapMergeIdle
    /\ MixIdle
    /\ clock = 0
    /\ run_folders = {}
    /\ segment_folders = {}
    /\ disk = {}
    /\ overwritten = {}
    /\ stage_log = << >>

\* analyze_vocals_precise.py main: the run folder is made first (line 581),
\* then the API key and the vocals file are checked (lines 591-598)
AnalyzeVocalsRun ==
    /\ \E outcome \in { "no api key", "no vocals file", "completed" } :
          LET stamp == clock + 1
          IN  /\ StageRun("analyze_vocals_precise", outcome,
                          IF outcome = "completed"
                          THEN { Path("run", stamp, "segment.wav"),
                                 Path("run", stamp, "analysis_report.json"),
                                 Path("run", stamp, "analysis_report.md") }
                          ELSE {})
              /\ run_folders' = run_folders \cup { stamp }
    /\ UNCHANGED segment_folders
    /\ UNCHANGED mergeVars
    /\ UNCHANGED chunkVars
    /\ UNCHANGED synthVars
    /\ UNCHANGED reconVars
    /\ UNCHANGED trimVars
    /\ UNCHANGED analyzeVars
    /\ UNCHANGED gapVars
    /\ UNCHANGED enrichVars
    /\ UNCHANGED alignVars
    /\ UNCHANGED pairVars
    /\ UNCHANGED featVars
    /\ UNCHANGED gapMergeVars
    /\ UNCHANGED mixVars

\* analyze_specific_segment.py main: the API key and the vocals file are
\* checked (lines 223-233) before the folder is made (lines 236-238)
AnalyzeSegmentRun ==
    /\ \E outcome \in { "no api key", "no vocals file", "completed" } :
          LET stamp == clock + 1
          IN  /\ StageRun("analyze_specific_segment", outcome,
                          IF outcome = "completed"
                          THEN { Path("segment_analysis", stamp, "segment.wav"),
                                 Path("segment_analysis", stamp, "analysis.json"),
                                 Path("segment_analysis", stamp, "visualization.png") }
                          ELSE {})
              /\ segment_folders' =
                    IF outcome = "completed"
                    THEN segment_folders \cup { stamp } ELSE segment_folders
    /\ UNCHANGED run_folders
    /\ UNCHANGED mergeVars
    /\ UNCHANGED chunkVars
    /\ UNCHANGED synthVars
    /\ UNCHANGED reconVars
    /\ UNCHANGED trimVars
    /\ UNCHANGED analyzeVars
    /\ UNCHANGED gapVars
    /\ UNCHANGED enrichVars
    /\ UNCHANGED alignVars
    /\ UNCHANGED pairVars
    /\ UNCHANGED featVars
    /\ UNCHANGED gapMergeVars
    /\ UNCHANGED mixVars

\* trim_segment.py main and trim_segment_to_word on the latest run folder
TrimRun ==
    /\ \E found \in BOOLEAN :
          LET outcome ==
                  IF run_folders = {} THEN "no analysis runs"
                  ELSE IF ~Exists(Path("run", LatestRun, "analysis_report.json"))
                       THEN "no analysis report"
                  ELSE IF ~found THEN "word not found"
                  ELSE "completed"
          IN  StageRun("trim_segment", outcome,
                       IF outcome = "completed"
                       THEN { Path("run", LatestRun, "segment_trimmed.wav"),
                              Path("run", LatestRun, "analysis_report_trimmed.json") }
                       ELSE {})
    /\ UNCHANGED <<run_folders, segment_folders>>
    /\ UNCHANGED mergeVars
    /\ UNCHANGED chunkVars
    /\ UNCHANGED synthVars
    /\ UNCHANGED reconVars
    /\ UNCHANGED trimVars
    /\ UNCHANGED analyzeVars
    /\ UNCHANGED gapVars
    /\ UNCHANGED enrichVars
    /\ UNCHANGED alignVars
    /\ UNCHANGED pairVars
    /\ UNCHANGED featVars
    /\ UNCHANGED gapMergeVars
    /\ UNCHANGED mixVars

\* generate_from_analysis.py on the latest run folder
GenerateFromAnalysisRun ==
    /\ LET outcome ==
               IF run_folders = {} THEN "no analysis runs"
               ELSE IF ~Exists(Path("run", LatestRun, "analysis_report_trimmed.json"))
                    THEN "no trimmed analysis"
               ELSE "completed"
       IN  StageRun("generate_from_analysis", outcome,
                    IF outcome = "completed"
                    THEN { Path("run", LatestRun, "generated_spanish/segment_01.wav"),
                           Path("run", LatestRun,
                                "generated_spanish/vocals_spanish_complete.wav"),
                           Path("run", LatestRun,
                                "generated_spanish/generation_metadata.json") }
                    ELSE {})
    /\ UNCHANGED <<run_folders, segment_folders>>
    /\ UNCHANGED mergeVars
    /\ UNCHANGED chunkVars
    /\ UNCHANGED synthVars
    /\ UNCHANGED reconVars
    /\ UNCHANGED trimVars
    /\ UNCHANGED analyzeVars
    /\ UNCHANGED gapVars
    /\ UNCHANGED enrichVars
    /\ UNCHANGED alignVars
    /\ UNCHANGED pairVars
    /\ UNCHANGED featVars
    /\ UNCHANGED gapMergeVars
    /\ UNCHANGED mixVars

\* generate_all_spanish_segments.py main and process_segment for one part:
\* chunk clips, generated line audio and the merged part audio
GenerateSegmentsRun ==
    /\ \E language \in Languages :
          LET outcome == IF segment_folders = {} THEN "no segment folders"
                         ELSE "completed"
          IN  StageRun("generate_all_spanish_segments", outcome,
                       IF outcome = "completed"
                       THEN { LangPath("temp_chunks", language, "part1_chunk_line_1.wav"),
                              LangPath("generated_vocals", language, "part1_line_1.wav"),
                              LangPath("generated_vocals", language, "part1_merged.wav") }
                       ELSE {})
    /\ UNCHANGED <<run_folders, segment_folders>>
    /\ UNCHANGED mergeVars
    /\ UNCHANGED chunkVars
    /\ UNCHANGED synthVars
    /\ UNCHANGED reconVars
    /\ UNCHANGED trimVars
    /\ UNCHANGED analyzeVars
    /\ UNCHANGED gapVars
    /\ UNCHANGED enrichVars
    /\ UNCHANGED alignVars
    /\ UNCHANGED pairVars
    /\ UNCHANGED featVars
    /\ UNCHANGED gapMergeVars
    /\ UNCHANGED mixVars

\* merge_spanish_timeline.py: the merged track of a language
MergeTimelineRun ==
    /\ \E language \in Languages :
          LET outcome ==
                  IF segment_folders = {}
                     \/ ~Exists(LangPath("generated_vocals", language, "part1_merged.wav"))
                  THEN "no segments to merge"
                  ELSE "completed"
          IN  StageRun("merge_spanish_timeline", outcome,
                       IF outcome = "completed"
                       THEN { LangPath("generated_vocals", language, "full_vocals_merged.wav") }
                       ELSE {})
    /\ UNCHANGED <<run_folders, segment_folders>>
    /\ UNCHANGED mergeVars
    /\ UNCHANGED chunkVars
    /\ UNCHANGED synthVars
    /\ UNCHANGED reconVars
    /\ UNCHANGED trimVars
    /\ UNCHANGED analyzeVars
    /\ UNCHANGED gapVars
    /\ UNCHANGED enrichVars
    /\ UNCHANGED alignVars
    /\ UNCHANGED pairVars
    /\ UNCHANGED featVars
    /\ UNCHANGED gapMergeVars
    /\ UNCHANGED mixVars

NextRuns ==
    \/ AnalyzeVocalsRun
    \/ AnalyzeSegmentRun
    \/ TrimRun
    \/ GenerateFromAnalysisRun
    \/ GenerateSegmentsRun
    \/ MergeTimelineRun

SpecRuns == InitRuns /\ [][NextRuns]_vars

----------------------------------------------------------------------------
(* generate_all_spanish_segments.py: process_segment, choice of the input files *)

\* the files a segment folder can hold
SegmentWavs == { "segment.wav", "segment_trimmed.wav", "segment_b.wav" }
AnalysisJsons == { "analysis.json", "analysis_trimmed.json", "analysis_b.json" }

\* 'trimmed' in f.name
IsTrimmedName(name) == name \in { "segment_trimmed.wav", "analysis_trimmed.json" }

InitPair ==
    /\ MergeIdle
    /\ ChunkIdle
    /\ SynthIdle
    /\ ReconIdle
    /\ TrimIdle
    /\ AnalyzeIdle
    /\ GapIdle
    /\ EnrichIdle
    /\ AlignIdle
    /\ RunsIdle
    /\ FeatIdle
    /\ GapMergeIdle
    /\ MixIdle
    /\ folder_content \in SUBSET (SegmentWavs \cup AnalysisJsons)
    /\ audio_file = "none"
    /\ analysis_json = "none"
    /\ p_pc = "start"

\* lines 317-325: the segment audio; glob gives the files in any order
FindSegmentAudio ==
    /\ p_pc = "start"
    /\ LET segment_files == folder_content \cap SegmentWavs
           trimmed_files == { f \in segment_files : IsTrimmedName(f) }
       IN  IF segment_files = {}
           THEN /\ p_pc' = "no segment audio"
                /\ audio_file' = audio_file
           ELSE /\ p_pc' = "audio found"
                /\ audio_file' \in (IF trimmed_files # {} THEN trimmed_files
                                    ELSE segment_files)
    /\ UNCHANGED <<folder_content, analysis_json>>
    /\ UNCHANGED mergeVars
    /\ UNCHANGED chunkVars
    /\ UNCHANGED synthVars
    /\ UNCHANGED reconVars
    /\ UNCHANGED trimVars
    /\ UNCHANGED analyzeVars
    /\ UNCHANGED gapVars
    /\ UNCHANGED enrichVars
    /\ UNCHANGED alignVars
    /\ UNCHANGED runsVars
    /\ UNCHANGED featVars
    /\ UNCHANGED gapMergeVars
    /\ UNCHANGED mixVars

\* lines 327-337: the analysis JSON
FindAnalysisJson ==
    /\ p_pc = "audio found"
    /\ LET analysis_files == folder_content \cap AnalysisJsons
           trimmed_files == { f \in folder_content \cap SegmentWavs : IsTrimmedName(f) }
           trimmed_json == { f \in analysis_files : IsTrimmedName(f) }
       IN  IF analysis_files = {}
           THEN /\ p_pc' = "no analysis json"
                /\ analysis_json' = analysis_json
           ELSE /\ p_pc' = "paired"
                /\ analysis_json' \in (IF trimmed_files # {} /\ trimmed_json # {}
                                       THEN trimmed_json
                                       ELSE analysis_files)
    /\ UNCHANGED <<folder_content, audio_file>>
    /\ UNCHANGED mergeVars
    /\ UNCHANGED chunkVars
    /\ UNCHANGED synthVars
    /\ UNCHANGED reconVars
    /\ UNCHANGED trimVars
    /\ UNCHANGED analyzeVars
    /\ UNCHANGED gapVars
    /\ UNCHANGED enrichVars
    /\ UNCHANGED alignVars
    /\ UNCHANGED runsVars
    /\ UNCHANGED featVars
    /\ UNCHANGED gapMergeVars
    /\ UNCHANGED mixVars

NextPair == FindSegmentAudio \/ FindAnalysisJson

SpecPair == InitPair /\ [][NextPair]_vars

----------------------------------------------------------------------------
(* generate_from_analysis.py: merge of the generated segments with timing *)

\* Bounds of the model
MaxMergeSegments == 3

\* original_start is a float of seconds; times that are not AudioSegment
\* lengths are kept in ticks of 1/TicksPerMs ms
TicksPerMs == 10

\* original_start of segment i (ticks) is 30000 * i plus an offset: on a
\* whole millisecond or not
StartOffsetChoices == { 0, 4 }

\* len(segment_audio) in ms: shorter than the distance to the next segment,
\* longer than it
SegmentLenChoices == { 2200, 3300 }

\* generated_segments: the segments that did not fail, in index order
RECURSIVE SucceededFrom(_, _, _, _)
SucceededFrom(i, succeeded, offset, len) ==
    IF i >= MaxMergeSegments THEN << >>
    ELSE (IF succeeded[i]
          THEN << [ index |-> i,
                    original_start |-> 30000 * i + offset[i],
                    len |-> len[i] ] >>
          ELSE << >>)
         \o SucceededFrom(i + 1, succeeded, offset, len)

MergeInputs ==
    { SucceededFrom(0, succeeded, offset, len) :
        succeeded \in [ 0..(MaxMergeSegments - 1) -> BOOLEAN ],
        offset \in [ 0..(MaxMergeSegments - 1) -> StartOffsetChoices ],
        len \in [ 0..(MaxMergeSegments - 1) -> SegmentLenChoices ] }

\* the mutant of GapMs: no silence is added
NoGapMs(seg_start, position) == 0

\* lines 204-207: int((seg_start - current_position) * 1000), ms of silence
GapMs(seg_start, position) ==
    IF seg_start > position THEN (seg_start - position) \div TicksPerMs ELSE 0

InitGapMerge ==
    /\ MergeIdle
    /\ ChunkIdle
    /\ SynthIdle
    /\ ReconIdle
    /\ TrimIdle
    /\ AnalyzeIdle
    /\ GapIdle
    /\ EnrichIdle
    /\ AlignIdle
    /\ RunsIdle
    /\ PairIdle
    /\ FeatIdle
    /\ MixIdle
    /\ to_merge \in MergeInputs
    /\ final_audio = 0
    /\ current_position = 0
    /\ placed = << >>
    /\ gm_pc = "merge"

\* lines 200-215: one iteration of the merge loop
AppendSegment ==
    /\ gm_pc = "merge"
    /\ Len(placed) < Len(to_merge)
    /\ LET seg_info == to_merge[Len(placed) + 1]
           seg_start == seg_info.original_start
           gap == GapMs(seg_start, current_position)
           gapped == seg_start > current_position
           position == IF gapped THEN seg_start ELSE current_position
           gaps_before == IF placed = << >> THEN 0 ELSE placed[Len(placed)].gaps
       IN  /\ final_audio' = final_audio + gap + seg_info.len
           /\ current_position' = position + TicksPerMs * seg_info.len
           /\ placed' = Append(placed,
                          [ index |-> seg_info.index,
                            ended_before |-> final_audio,
                            begin |-> final_audio + gap,
                            gaps |-> gaps_before + (IF gapped THEN 1 ELSE 0) ])
    /\ UNCHANGED <<to_merge, gm_pc>>
    /\ UNCHANGED mergeVars
    /\ UNCHANGED chunkVars
    /\ UNCHANGED synthVars
    /\ UNCHANGED reconVars
    /\ UNCHANGED trimVars
    /\ UNCHANGED analyzeVars
    /\ UNCHANGED gapVars
    /\ UNCHANGED enrichVars
    /\ UNCHANGED alignVars
    /\ UNCHANGED runsVars
    /\ UNCHANGED pairVars
    /\ UNCHANGED featVars
    /\ UNCHANGED mixVars

\* lines 217-219: the final audio is exported
ExportFinalAudio ==
    /\ gm_pc = "merge"
    /\ Len(placed) = Len(to_merge)
    /\ gm_pc' = "exported"
    /\ UNCHANGED <<to_merge, final_audio, current_position, placed>>
    /\ UNCHANGED mergeVars
    /\ UNCHANGED chunkVars
    /\ UNCHANGED synthVars
    /\ UNCHANGED reconVars
    /\ UNCHANGED trimVars
    /\ UNCHANGED analyzeVars
    /\ UNCHANGED gapVars
    /\ UNCHANGED enrichVars
    /\ UNCHANGED alignVars
    /\ UNCHANGED runsVars
    /\ UNCHANGED pairVars
    /\ UNCHANGED featVars
    /\ UNCHANGED mixVars

NextGapMerge == AppendSegment \/ ExportFinalAudio

SpecGapMerge == InitGapMerge /\ [][NextGapMerge]_vars

----------------------------------------------------------------------------
(* mix_spanish_with_instrumental.py: mix_vocals_with_instrumental *)

\* len(vocals), len(instrumental) of the loaded files, ms
TrackLenChoices == { 0, 1, 1500, 3000, 3001, 45000, 107000, 107001, 180000 }

\* AudioSegment.from_wav: a track of content only
Loaded(length) == [ len |-> length, content |-> length ]

\* the mutant of MaxDuration: the length of the vocals
VocalsDuration(vocals_len, instrumental_len) == vocals_len

\* line 40: max(len(vocals), len(instrumental))
MaxDuration(vocals_len, instrumental_len) == Max(vocals_len, instrumental_len)

\* lines 42-52: track + AudioSegment.silent(duration=max_duration - len(track))
\* when the track is shorter than max_duration
Padded(track, max_duration) ==
    IF track.len < max_duration
    THEN [ len |-> track.len + (max_duration - track.len), content |-> track.content ]
    ELSE track

\* line 56: vocals.overlay(instrumental): the result is as long as vocals,
\* what of instrumental lies past its end is cut
OverlayTracks(base, other) ==
    [ len |-> base.len,
      vocals_content |-> base.content,
      instrumental_content |-> Min(other.content, base.len) ]

InitMix ==
    /\ MergeIdle
    /\ ChunkIdle
    /\ SynthIdle
    /\ ReconIdle
    /\ TrimIdle
    /\ AnalyzeIdle
    /\ GapIdle
    /\ EnrichIdle
    /\ AlignIdle
    /\ RunsIdle
    /\ PairIdle
    /\ FeatIdle
    /\ GapMergeIdle
    /\ \E v \in TrackLenChoices : vocals = Loaded(v)
    /\ \E i \in TrackLenChoices : instrumental = Loaded(i)
    /\ mixed = None
    /\ mx_pc = "loaded"

\* lines 30-52: volume adjustment (lengths unchanged) and padding
PadTracks ==
    /\ mx_pc = "loaded"
    /\ LET max_duration == MaxDuration(vocals.len, instrumental.len)
       IN  /\ vocals' = Padded(vocals, max_duration)
           /\ instrumental' = Padded(instrumental, max_duration)
    /\ mx_pc' = "padded"
    /\ UNCHANGED mixed
    /\ UNCHANGED mergeVars
    /\ UNCHANGED chunkVars
    /\ UNCHANGED synthVars
    /\ UNCHANGED reconVars
    /\ UNCHANGED trimVars
    /\ UNCHANGED analyzeVars
    /\ UNCHANGED gapVars
    /\ UNCHANGED enrichVars
    /\ UNCHANGED alignVars
    /\ UNCHANGED runsVars
    /\ UNCHANGED pairVars
    /\ UNCHANGED featVars
    /\ UNCHANGED gapMergeVars

\* lines 54-67: overlay and export
MixTracks ==
    /\ mx_pc = "padded"
    /\ mixed' = OverlayTracks(vocals, instrumental)
    /\ mx_pc' = "mixed"
    /\ UNCHANGED <<vocals, instrumental>>
    /\ UNCHANGED mergeVars
    /\ UNCHANGED chunkVars
    /\ UNCHANGED synthVars
    /\ UNCHANGED reconVars
    /\ UNCHANGED trimVars
    /\ UNCHANGED analyzeVars
    /\ UNCHANGED gapVars
    /\ UNCHANGED enrichVars
    /\ UNCHANGED alignVars
    /\ UNCHANGED runsVars
    /\ UNCHANGED pairVars
    /\ UNCHANGED featVars
    /\ UNCHANGED gapMergeVars

NextMix == PadTracks \/ MixTracks

SpecMix == InitMix /\ [][NextMix]_vars

----------------------------------------------------------------------------
(* Properties of the Chunker *)

RangeSize(r) == r[2] - r[1] + 1

\* C1: with at least 4 words the chunker yields exactly 4 ordered, contiguous,
\* non-overlapping inclusive ranges covering 0..total_words-1 once; the first
\* (total_words % 4) ranges hold (total_words // 4) + 1 words, the others
\* total_words // 4; for 18 words they are the ranges create_line_chunks
\* hard-codes.
C1_EvenDivision ==
    (c_pc # "start" /\ Len(word_timings) >= 4) =>
        LET n == Len(word_timings)
            r == line_word_ranges
        IN  /\ Len(r) = 4
            /\ r[1][1] = 0
            /\ r[4][2] = n - 1
            /\ \A j \in 1..3 : r[j + 1][1] = r[j][2] + 1
            /\ \A j \in 1..4 :
                  RangeSize(r[j]) = (n \div 4) + (IF j <= n % 4 THEN 1 ELSE 0)
            /\ Len(chunks) = 4
            /\ \A j \in 1..4 : chunks[j].word_count = RangeSize(r[j])
            /\ (n = 18 => r = FixedWordRanges)

\* C1 witness: an 18-word list has been chunked into (0,4),(5,9),(10,13),(14,17).
C1_Witness ==
    /\ c_pc = "done"
    /\ Len(word_timings) = 18
    /\ line_word_ranges = << <<0, 4>>, <<5, 9>>, <<10, 13>>, <<14, 17>> >>

\* C9: each chunk's recorded time range is (relative start of its first word,
\* relative end of its last word) as stored in the record, and its clip spans
\* [max(0, start - padding), min(audio length, end + padding)] with the same
\* padding, at most 100 ms, on both sides; for both chunkers.
C9_TimeRangeAndClip ==
    /\ PaddingJson <= 100 /\ PaddingFixed <= 100
    /\ \A j \in 1..Len(chunks) :
          LET first_word == word_timings[line_word_ranges[j][1] + 1]
              last_word  == word_timings[line_word_ranges[j][2] + 1]
          IN  /\ chunks[j].time_range = << first_word.start, last_word.end >>
              /\ chunks[j].chunk_path.from = Max(0, first_word.start - PaddingJson)
              /\ chunks[j].chunk_path.to =
                    Min(segment_audio, last_word.end + PaddingJson)
    /\ \A j \in 1..Len(fixed_chunks.chunks) :
          LET first_word == word_timings[FixedWordRanges[j][1] + 1]
              last_word  == word_timings[FixedWordRanges[j][2] + 1]
          IN  /\ fixed_chunks.chunks[j].time_range
                    = << first_word.start, last_word.end >>
              /\ fixed_chunks.chunks[j].chunk_path.from
                    = Max(0, first_word.start - PaddingFixed)
              /\ fixed_chunks.chunks[j].chunk_path.to
                    = Min(segment_audio, last_word.end + PaddingFixed)

\* C9 witness: both chunkers have produced their chunks; one clip start is
\* clamped at 0, one clip end is clamped at the end of the audio, and one clip
\* carries the full padding on both sides.
C9_Witness ==
    /\ c_pc = "done"
    /\ Len(fixed_chunks.chunks) = 4
    /\ \E j \in 1..Len(chunks) :
          chunks[j].chunk_path.from = 0 /\ chunks[j].time_range[1] > 0
    /\ \E j \in 1..Len(chunks) :
          /\ chunks[j].chunk_path.to = segment_audio
          /\ chunks[j].time_range[2] < segment_audio
    /\ \E j \in 1..Len(chunks) :
          chunks[j].duration
             = chunks[j].time_range[2] - chunks[j].time_range[1] + 2 * PaddingJson

----------------------------------------------------------------------------
(* Properties of the synthesis loop *)

Attempted == 1..Len(chunk_outputs)

\* lines of the current part whose synthesis succeeded, in order
RECURSIVE SucceededLines(_)
SucceededLines(i) ==
    IF i > Len(synth_log) THEN << >>
    ELSE IF synth_log[i].outcome = "ok"
         THEN << chunks[i].line_number >> \o SucceededLines(i + 1)
         ELSE SucceededLines(i + 1)

\* C8 (as claimed): the reference duration a generated chunk's duration is
\* compared with equals relative_end - relative_start of the chunk, without
\* the extraction padding.
C8_ReferenceIsWordSpan ==
    \A i \in Attempted :
        synth_log[i].outcome = "ok" =>
            synth_log[i].ref_duration
               = chunks[i].time_range[2] - chunks[i].time_range[1]

\* C8 (amended): the reference duration is the length of the extracted
\* reference clip: the span from the first word's relative start to the last
\* word's relative end plus the 50 ms padding on each side, clamped to the
\* bounds of the segment audio.
C8_ReferenceIsClipLength ==
    \A i \in Attempted :
        synth_log[i].outcome = "ok" =>
            synth_log[i].ref_duration
               = Min(segment_audio, chunks[i].time_range[2] + PaddingJson)
                   - Max(0, chunks[i].time_range[1] - PaddingJson)

\* C8 witness: a chunk has been generated whose reference clip carries the
\* full padding on both sides, and one whose clip is clamped at the start.
C8_Witness ==
    /\ \E i \in Attempted :
          /\ synth_log[i].outcome = "ok"
          /\ synth_log[i].ref_duration
                = chunks[i].time_range[2] - chunks[i].time_range[1] + 2 * PaddingJson
    /\ \E i \in Attempted :
          /\ synth_log[i].outcome = "ok"
          /\ chunks[i].chunk_path.from = 0

----------------------------------------------------------------------------
(* Properties of the Duration Reconciler *)

\* what the engine returned for the segment a record was built from
FramesOf(rec) == generated_log[rec.index + 1].frames

\* |duration_ratio - 1| <= 0.15 for generated frames and a target in ms
WithinTolerance(frames, target) ==
    Abs(1000 * frames - SampleRate * target) <= (3 * SampleRate * target) \div 20

C7_Idempotent ==
    \A k \in 1..Len(generated_segments) :
        LET rec == generated_segments[k]
            seg == << rec.original_start, rec.original_end >>
            again == Reconcile(rec.index, seg, rec.file.frames)
        IN  /\ ~NeedsStretch(rec.file.frames, rec.original_duration)
            /\ again.adjusted = FALSE
            /\ again.file.frames = rec.file.frames

----------------------------------------------------------------------------
(* Properties of the Timeline Assembler *)

Overlaid == 1..Len(overlaid)

\* position t of the master track carries audio of some part
NonSilent(t) == \E m \in base_track.mix : m.from <= t /\ t < m.to

\* position t lies in the placement of some part
InPlacement(t) ==
    \E k \in 1..Len(segment_info) :
        segment_info[k].start_time <= t /\ t < segment_info[k].end_time

\* position t lies in the span the overlaid audio of some part occupies
InRendered(t) ==
    \E k \in Overlaid :
        /\ segment_info[k].start_time <= t
        /\ t < segment_info[k].start_time + overlaid[k].audio_len

\* Marks, placements and rendered spans are intervals, so NonSilent,
\* InPlacement and InRendered are constant between two consecutive interval
\* ends: the positions below stand for every position of the track.
Boundaries ==
    ( {0}
      \cup { m.from : m \in base_track.mix } \cup { m.to : m \in base_track.mix }
      \cup { segment_info[k].start_time : k \in 1..Len(segment_info) }
      \cup { segment_info[k].end_time : k \in 1..Len(segment_info) }
      \cup { segment_info[k].start_time + overlaid[k].audio_len : k \in Overlaid } )
    \cap 0..(base_track.len - 1)

\* C2: every overlaid part's audio begins in the master track exactly at the
\* part's own absolute start, whatever the rendered lengths of the parts
\* overlaid before it.
C2_StartAtAbsoluteStart ==
    \A k \in Overlaid :
        /\ overlaid[k].position = segment_info[k].start_time
        /\ \E m \in base_track.mix :
              m.id = k /\ m.from = segment_info[k].start_time

\* C2 witness: a part rendered longer than its placement runs into the start
\* of the next part, and that next part has been overlaid.
C2_Witness ==
    \E k \in Overlaid : \E j \in Overlaid :
        /\ k < j
        /\ overlaid[k].audio_len > segment_info[k].duration
        /\ segment_info[k].start_time + overlaid[k].audio_len
              > segment_info[j].start_time
        /\ segment_info[j].start_time > segment_info[k].start_time

\* C3: the master track is created silent with the length of the maximum
\* absolute end of the placements and keeps that length through every overlay.
C3_TrackLength ==
    m_pc \in {"overlay", "done"} =>
        /\ base_track.len =
              SetMax({ segment_info[k].end_time : k \in 1..Len(segment_info) })
        /\ (overlaid = << >> => base_track.mix = {})

\* C3 witness: the merge is finished and some overlaid audio was longer than
\* the room left between its start and the end of the master track.
C3_Witness ==
    /\ m_pc = "done"
    /\ \E k \in Overlaid :
          overlaid[k].position + overlaid[k].audio_len > base_track.len

\* C4 (as claimed): after all overlays every position outside every
\* placement's [absolute_start, absolute_end) is silent.
C4_SilentOutsidePlacements ==
    m_pc = "done" =>
        \A t \in Boundaries : ~InPlacement(t) => ~NonSilent(t)

\* C4 (amended): after all overlays every position outside every span
\* [absolute_start, absolute_start + length of the audio overlaid for the
\* part) is silent.
C4_SilentOutsideRendered ==
    m_pc = "done" =>
        \A t \in Boundaries : ~InRendered(t) => ~NonSilent(t)

\* C4 witness: the merge is finished and the track has a silent position
\* between two parts and a silent position after the last rendered span.
C4_Witness ==
    /\ m_pc = "done"
    /\ Len(overlaid) >= 2
    /\ \E t \in Boundaries :
          /\ ~NonSilent(t) /\ ~InRendered(t)
          /\ \E u \in Boundaries : u < t /\ NonSilent(u)
          /\ \E w \in Boundaries : w > t /\ NonSilent(w)
    /\ ~NonSilent(base_track.len - 1)

\* C5 (as claimed): every overlaid part whose rendered duration differs from
\* its placement duration by more than the tolerance was rate-corrected,
\* whether the rendered audio was too long or too short.
C5_DriftAlwaysCorrected ==
    \A k \in Overlaid :
        Abs(overlaid[k].vocal_len - segment_info[k].duration) > Tolerance
            => overlaid[k].adjusted

----------------------------------------------------------------------------
(* Properties of trim_segment_to_word *)

\* the trimmed report has been written
Trimmed == t_pc = "saved"

\* C11: trimming at the word with index i gives a derivative report whose word
\* list has exactly i+1 entries, the parent's words with indices 0..i in their
\* original order, and whose total_words and full_text come from those words.
C11_TrimKeepsPrefix ==
    Trimmed =>
        LET i == target_word_data.index
            parent_words == report_file.transcription.word_timings
            kept == trimmed_report_file.transcription.word_timings
        IN  /\ Len(kept) = i + 1
            /\ \A k \in 1..(i + 1) : kept[k] = parent_words[k] /\ kept[k].index = k - 1
            /\ trimmed_report_file.summary.total_words = i + 1
            /\ trimmed_report_file.transcription.full_text
                  = [ k \in 1..(i + 1) |-> parent_words[k].word ]

\* C11 witness: a report of three words has been trimmed at its second word.
C11_Witness ==
    /\ Trimmed
    /\ Len(report_file.transcription.word_timings) = 3
    /\ target_word_data.index = 1
    /\ Len(trimmed_report_file.transcription.word_timings) = 2

\* C12: trimming never changes the parent: the parent record loaded in memory,
\* nested groups included, keeps the values of the persisted parent report,
\* and the derivative holds no nested object of the parent.
C12_ParentUnmodified ==
    /\ (analysis # None => Dump(analysis, heap) = report_file)
    /\ (updated_analysis # None =>
          \A r \in Refs : updated_analysis[r] # analysis[r])

\* times of every region or feature datum of a report
FeatureTimes(report) ==
    LET a == report.audio_analysis
    IN  { a.onset_times[k] : k \in 1..Len(a.onset_times) }
        \cup { a.beat_times[k] : k \in 1..Len(a.beat_times) }
        \cup { a.pitch_contour[k] : k \in 1..Len(a.pitch_contour) }
        \cup { a.energy_contour[k] : k \in 1..Len(a.energy_contour) }
        \cup { a.gaps[k].end : k \in 1..Len(a.gaps) }
        \cup { report.transcription.segments[k].end :
                 k \in 1..Len(report.transcription.segments) }

\* C13: in the trimmed derivative every onset, beat, pitch sample, energy
\* sample, silence gap and phrase-level segment has a time not later than the
\* end of the target word.
C13_NoDataBeyondTrim ==
    Trimmed =>
        \A t \in FeatureTimes(trimmed_report_file) : t <= target_word_data.end

----------------------------------------------------------------------------
(* Properties of the dual time frame word list *)

\* both absolute times of a word are its relative times shifted by the
\* region's absolute start
DualFrameConsistent(w) ==
    /\ w.time_absolute.start - w.time_relative.start = start_time
    /\ w.time_absolute.end - w.time_relative.end = start_time

\* C14 (first half): dual-frame consistency of every word of the record.
C14_DualFrameConsistency ==
    \A k \in 1..Len(word_timings_dual) : DualFrameConsistent(word_timings_dual[k])

\* C14: for every word of the record, absolute_start - relative_start and
\* absolute_end - relative_end equal the region's absolute start, and
\* relative_end > relative_start, whatever transcript the engine returned.
C14_DualFrameAndPositiveLength ==
    \A k \in 1..Len(word_timings_dual) :
        /\ DualFrameConsistent(word_timings_dual[k])
        /\ word_timings_dual[k].time_relative.end
              > word_timings_dual[k].time_relative.start

----------------------------------------------------------------------------
(* Properties of the Chunker: short word lists and target-line lists *)

\* the chunker has run
Chunked == c_pc # "start"

LinesPaired ==
    /\ Len(chunks) <= NumLines
    /\ \A j \in 1..Len(chunks) :
          chunks[j].target_text
             = IF j <= Len(target_lines) THEN target_lines[j] ELSE ""

\* C16 (as claimed): with n # 4 target lines chunk j is paired with the j-th
\* line for j < min(n, 4) and with "" for n <= j < 4, lines beyond the fourth
\* are ignored, and a validation warning is printed; with n = 4 no warning is
\* printed and the lines are paired unchanged.
C16_LinesPairedAndWarned ==
    Chunked =>
        /\ LinesPaired
        /\ ("Expected 4 lines" \in warnings <=> Len(target_lines) # NumLines)

\* C16 (amended): the pairing as claimed; the validation warning is printed
\* exactly when n # 4 and the word list is not empty (with an empty word list
\* the chunker returns before it looks at the target lines).
C16_LinesPairedAndWarnedIfWords ==
    Chunked =>
        /\ LinesPaired
        /\ ("Expected 4 lines" \in warnings
               <=> (Len(target_lines) # NumLines /\ Len(word_timings) > 0))

\* C16 witness: three lines were supplied for four chunks: the fourth chunk
\* has the empty string and the warning was printed.
C16_Witness ==
    /\ Chunked
    /\ Len(target_lines) = 3
    /\ Len(chunks) = 4
    /\ chunks[3].target_text = "l3"
    /\ chunks[4].target_text = ""
    /\ "Expected 4 lines" \in warnings

----------------------------------------------------------------------------
(* Properties of the Timeline Assembler: reused parts and writing order *)

\* overlay k used the merged audio of part src, as it is on disk, at the
\* placement's own absolute start
OverlaidFrom(k, src) ==
    /\ segment_info[k].vocal_file = src
    /\ overlaid[k].vocal_len = vocal_files[src]
    /\ overlaid[k].position = segment_info[k].start_time

\* C17: a part that reuses another part's audio is resolved before overlay:
\* the placement of part5 is overlaid with part1's merged audio and that of
\* part6 with part2's, each at the reusing part's own absolute start, and the
\* merged audio files are never written (neither copied nor changed).
C17_ReuseResolved ==
    /\ [](\A k \in Overlaid :
            /\ (segment_info[k].part_name = "part5" => OverlaidFrom(k, "part1"))
            /\ (segment_info[k].part_name = "part6" => OverlaidFrom(k, "part2")))
    /\ [][vocal_files' = vocal_files]_vars

\* C17 witness: a timeline with a part5 and a part6 placement is finished,
\* with two different merged files behind them.
C17_Witness ==
    /\ m_pc = "done"
    /\ vocal_files["part1"] # vocal_files["part2"]
    /\ \E k \in Overlaid : segment_info[k].part_name = "part5"
    /\ \E k \in Overlaid : segment_info[k].part_name = "part6"

\* C18: the master track is written one placement at a time (overlay k is the
\* k-th write and the only one of its step), in non-decreasing order of
\* absolute_start, whatever order the folders were discovered in.
C18_SequentialSortedWrites ==
    /\ [](/\ { m.id : m \in base_track.mix } = Overlaid
          /\ \A k \in Overlaid : overlaid[k].position = segment_info[k].start_time
          /\ \A k \in 1..(Len(overlaid) - 1) :
                overlaid[k].position <= overlaid[k + 1].position)
    /\ [][Len(overlaid') <= Len(overlaid) + 1]_vars

\* C18 witness: two folders discovered in the reverse of their time order have
\* both been overlaid.
C18_Witness ==
    /\ m_pc = "done"
    /\ Len(folders) = 2
    /\ Len(overlaid) = 2
    /\ folders[1].start > folders[2].start
    /\ overlaid[1].position < overlaid[2].position

----------------------------------------------------------------------------
(* Properties of the silence detection *)

\* frame i (0-based) of the analysed region is silent
IsSilent(i) == i \in 0..(Len(rms) - 1) /\ SilenceMask(rms, i)

\* <<a, b>>: frames a..b-1 are a maximal run of silent frames
MaximalSilentRuns ==
    { r \in (0..(Len(rms) - 1)) \X (1..Len(rms)) :
        /\ r[1] < r[2]
        /\ \A i \in r[1]..(r[2] - 1) : IsSilent(i)
        /\ ~IsSilent(r[1] - 1)
        /\ ~IsSilent(r[2]) }

\* C19 (reported gaps are right): every reported gap is a maximal run of
\* silent frames longer than 0.15 s, and no run is reported twice.
C19_ReportedGapsAreLongRuns ==
    /\ \A k \in 1..Len(gaps) :
          /\ << gaps[k].start, gaps[k].end >> \in MaximalSilentRuns
          /\ LongerThanMinGap(gaps[k].start, gaps[k].end, sr)
    /\ \A k \in 1..Len(gaps) : \A j \in 1..Len(gaps) :
          gaps[k].start = gaps[j].start => k = j

\* C19: the reported gaps are exactly the maximal runs of consecutive silent
\* frames that last more than 0.15 s, a run that lasts until the final frame
\* included: every such run yields one gap and nothing else is reported.
C19_GapsAreExactlyLongRuns ==
    g_pc # "energy" =>
        /\ { << gaps[k].start, gaps[k].end >> : k \in 1..Len(gaps) }
              = { r \in MaximalSilentRuns : LongerThanMinGap(r[1], r[2], sr) }
        /\ Len(gaps)
              = Cardinality({ r \in MaximalSilentRuns : LongerThanMinGap(r[1], r[2], sr) })

----------------------------------------------------------------------------
(* Properties of the Timing Enricher *)

\* indices of the samples of a series whose time lies in [start, end]
SamplesWithin(samples, start, end) ==
    { j \in 1..Len(samples) : start <= samples[j].time /\ samples[j].time <= end }

RECURSIVE SumOver(_, _, _)
SumOver(samples, field, js) ==
    IF js = {} THEN 0
    ELSE LET j == CHOOSE x \in js : TRUE
         IN  samples[j][field] + SumOver(samples, field, js \ {j})

\* C20: for every word the pitch and energy aggregates are computed over
\* exactly the samples with start <= t <= end (both ends included); a word
\* with no such sample gets null pitch fields and null energy fields, never a
\* number, and the word's start and end are left as they were.
C20_ClosedIntervalAggregates ==
    \A k \in 1..Len(enriched) :
        LET w == enriched[k]
            start == timed_words[k][1]
            end == timed_words[k][2]
            ps == SamplesWithin(pitch_contour, start, end)
            es == SamplesWithin(rms_frames, start, end)
            pitches == { pitch_contour[j].pitch_hz : j \in ps }
            energies == { rms_frames[j].energy_db : j \in es }
        IN  /\ w.start = start
            /\ w.end = end
            /\ IF ps = {}
               THEN /\ w.avg_pitch_hz = Null
                    /\ w.min_pitch_hz = Null
                    /\ w.max_pitch_hz = Null
                    /\ w.pitch_range_hz = Null
                    /\ w.avg_note = Null
               ELSE /\ w.avg_pitch_hz
                          = Num(<< SumOver(pitch_contour, "pitch_hz", ps), Cardinality(ps) >>)
                    /\ w.min_pitch_hz = Num(SetMin(pitches))
                    /\ w.max_pitch_hz = Num(SetMax(pitches))
                    /\ w.pitch_range_hz = Num(SetMax(pitches) - SetMin(pitches))
            /\ IF es = {}
               THEN /\ w.avg_energy_db = Null
                    /\ w.max_energy_db = Null
               ELSE /\ w.avg_energy_db
                          = Num(<< SumOver(rms_frames, "energy_db", es), Cardinality(es) >>)
                    /\ w.max_energy_db = Num(SetMax(energies))

\* C20 witness: a word from 0.1 s to 0.4 s has been enriched from the pitch
\* samples at 0.1, 0.2 and 0.4 s (both ends included), and a word from 0.41 s
\* to 0.45 s, which no sample falls into, has null pitch and energy fields.
C20_Witness ==
    /\ e_pc = "returned"
    /\ \E k \in 1..Len(enriched) :
          /\ enriched[k].start = 100 /\ enriched[k].end = 400
          /\ enriched[k].avg_pitch_hz = Num(<< 220 + 247 + 196, 3 >>)
          /\ enriched[k].min_pitch_hz = Num(196)
    /\ \E k \in 1..Len(enriched) :
          /\ enriched[k].start = 410 /\ enriched[k].end = 450
          /\ enriched[k].avg_pitch_hz = Null
          /\ enriched[k].avg_energy_db = Null

----------------------------------------------------------------------------
(* Properties of the Transcript Aligner *)

\* t is s without its leading and trailing whitespace
IsStripped(s, t) ==
    /\ t = << >> \/ (t[1] # Space /\ t[Len(t)] # Space)
    /\ \E i \in 0..Len(s) :
          /\ i + Len(t) <= Len(s)
          /\ \A k \in 1..Len(t) : s[i + k] = t[k]
          /\ \A k \in 1..i : s[k] = Space
          /\ \A k \in (i + Len(t) + 1)..Len(s) : s[k] = Space

NoWordLevelData ==
    transcription.words_attr # "list" \/ transcription.words = << >>

\* C21: when the engine returns no word-level data the aligner returns (it
\* does not fail) the engine's full text as it is, an empty word list, and one
\* phrase-level segment per segment of the engine, in order, with the
\* engine's start and end and the engine's text (surrounding whitespace
\* removed, as for every response).
C21_NoWordsStillAligned ==
    (al_pc = "returned" /\ NoWordLevelData) =>
        /\ transcript.full_text = transcription.text
        /\ transcript.word_timings = << >>
        /\ Len(transcript.segments) = Len(transcription.segments)
        /\ \A k \in 1..Len(transcription.segments) :
              /\ transcript.segments[k].start = transcription.segments[k].start
              /\ transcript.segments[k].end = transcription.segments[k].end
              /\ IsStripped(transcription.segments[k].text, transcript.segments[k].text)

\* C21 witness: the response has no 'words' at all and two segments; the
\* aligner has returned both segments with an empty word list.
C21_Witness ==
    /\ al_pc = "returned"
    /\ transcription.words_attr \in { "absent", "none" }
    /\ Len(transcription.segments) = 2
    /\ transcript.word_timings = << >>
    /\ Len(transcript.segments) = 2
    /\ transcript.full_text = << Space, "v", Space, "t" >>

----------------------------------------------------------------------------
(* Properties of the stages: missing upstream artifacts *)

\* a discovered folder whose merged part audio is missing
MissingPartAudio ==
    \E k \in 1..Len(folders) : vocal_files[ReusedFrom(folders[k].part_name)] = NoFile

\* C22: when a required upstream artifact is missing (here the merged part
\* audio of a discovered folder) the stage stops: it does not go on with the
\* remaining parts and writes no output.
C22_MissingArtifactStopsStage ==
    MissingPartAudio => (overlaid = << >> /\ m_pc # "done")

----------------------------------------------------------------------------
(* Properties of the explicit-range chunker *)

\* C23: on a word list that the fixed ranges (0-4, 5-9, 10-13, 14-17) do not
\* fit (its length is not 18), create_line_chunks reports a structural error:
\* it neither produces chunks nor fails with an unhandled exception.
C23_BadRangesReported ==
    (c_pc = "done" /\ Len(word_timings) # 18) =>
        /\ fixed_chunks.error = "structural error"
        /\ fixed_chunks.chunks = << >>

----------------------------------------------------------------------------
(* Properties of the stage runs on the data directory *)

\* C24: file writes are write-once per run: no file written by one run is
\* written again by a later run.
C24_WriteOncePerRun == overwritten = {}

HasReport(t) == Exists(Path("run", t, "analysis_report.json"))

\* C25: whenever an analysis run has completed, the run folder selected as
\* latest holds an analysis report; a run that stopped early does not hide
\* the report of an earlier completed run.
C25_LatestRunHasReport ==
    (\E t \in run_folders : HasReport(t)) => HasReport(LatestRun)

----------------------------------------------------------------------------
(* Properties of process_segment: segment audio and analysis record *)

\* C26: process_segment uses the trimmed analysis JSON if and only if it uses
\* the trimmed segment audio.
C26_SameKindPaired ==
    p_pc = "paired" => (IsTrimmedName(analysis_json) <=> IsTrimmedName(audio_file))

----------------------------------------------------------------------------
(* Properties of the Chunker: clip bounds and feature means *)

\* C27: every chunk of create_line_chunks_from_json has clip bounds with
\* 0 <= chunk_start <= chunk_end <= audio length, hence a duration that is
\* not negative, also when word times lie beyond the end of the audio.
C27_ClipBoundsOrdered ==
    c_pc # "start" =>
        \A j \in 1..Len(chunks) :
            /\ 0 <= chunks[j].chunk_path.from
            /\ chunks[j].chunk_path.from <= chunks[j].chunk_path.to
            /\ chunks[j].chunk_path.to <= segment_audio
            /\ chunks[j].duration >= 0

\* the numbers that the words of a range carry under a key (present and not
\* null), in word order
RECURSIVE CarriedValues(_, _, _, _)
CarriedValues(features, key, i, last) ==
    IF i > last THEN << >>
    ELSE (IF key \in DOMAIN features[i + 1] /\ features[i + 1][key] # Null
          THEN << features[i + 1][key][1] >> ELSE << >>)
         \o CarriedValues(features, key, i + 1, last)

MeanOfCarried(key, range) ==
    LET values == CarriedValues(word_features, key, range[1], range[2])
    IN  IF values = << >> THEN Null
        ELSE Num(<< SumSeq(values), Len(values) >>)

\* C28: a chunk's avg_pitch_hz (avg_energy_db) is the mean of the values of
\* all words of its range that carry a non-null value, a value of exactly 0
\* included, and is null only when no word of the range carries a value.
C28_MeanOfCarriedValues ==
    c_pc # "start" =>
        \A j \in 1..Len(chunk_features) :
            /\ chunk_features[j].avg_pitch_hz
                  = MeanOfCarried("avg_pitch_hz", line_word_ranges[j])
            /\ chunk_features[j].avg_energy_db
                  = MeanOfCarried("avg_energy_db", line_word_ranges[j])

----------------------------------------------------------------------------
(* Properties of the merge with timing *)

\* the segments are appended in index order
InIndexOrder ==
    /\ \A k \in 1..Len(placed) : placed[k].index = to_merge[k].index
    /\ \A k \in 1..(Len(placed) - 1) : placed[k].index < placed[k + 1].index

\* C29 as stated: the segments are appended in index order, each begins no
\* earlier than its original_start, and exactly at original_start whenever
\* the audio appended before it ends at or before original_start.
C29_BeginsAtOriginalStart ==
    /\ InIndexOrder
    /\ \A k \in 1..Len(placed) :
          /\ TicksPerMs * placed[k].begin >= to_merge[k].original_start
          /\ TicksPerMs * placed[k].ended_before <= to_merge[k].original_start
                => TicksPerMs * placed[k].begin = to_merge[k].original_start

\* C29 amended: the segments are appended in index order; each begins no
\* earlier than its original_start less 1 ms per silence gap inserted so far,
\* and not after original_start whenever the audio appended before it ends at
\* or before original_start. A skipped segment is replaced by silence.
C29_BeginsWithinGapTruncation ==
    /\ InIndexOrder
    /\ \A k \in 1..Len(placed) :
          /\ TicksPerMs * placed[k].begin
                >= to_merge[k].original_start - TicksPerMs * placed[k].gaps
          /\ TicksPerMs * placed[k].ended_before <= to_merge[k].original_start
                => TicksPerMs * placed[k].begin <= to_merge[k].original_start

\* C29 witness: the segment of index 1 failed; the segment of index 2, which
\* starts off the millisecond grid, has been appended after a silence gap.
C29_Witness ==
    /\ gm_pc = "exported"
    /\ Len(placed) = 2
    /\ placed[1].index = 0
    /\ placed[2].index = 2
    /\ to_merge[2].original_start = 60004
    /\ placed[2].begin = 6000
    /\ placed[2].ended_before < 6000

----------------------------------------------------------------------------
(* Properties of the mix with the instrumental *)

\* C30: the mix is as long as the longer of the two input tracks; the shorter
\* track was padded with trailing silence and the mix holds the whole of
\* either track.
C30_MixLengthIsMax ==
    mx_pc = "mixed" =>
        LET longer == IF vocals.content >= instrumental.content
                      THEN vocals.content ELSE instrumental.content
        IN  /\ mixed.len = longer
            /\ vocals.len = longer
            /\ instrumental.len = longer
            /\ mixed.vocals_content = vocals.content
            /\ mixed.instrumental_content = instrumental.content

\* C30 witness: vocals of 107 s have been mixed with a three minute
\* instrumental, and the mix is three minutes long.
C30_Witness ==
    /\ mx_pc = "mixed"
    /\ vocals.content = 107000
    /\ instrumental.content = 180000
    /\ mixed.len = 180000
    /\ mixed.instrumental_content = 180000

====
